---- MODULE Spec2Model ----
(***************************************************************************)
(* A model of the snackmoney command-line client: the amount parsers of    *)
(* the single-send and batch-send entry points, the argument parser's      *)
(* delivery of argv values, network selection, and the order in which each *)
(* entry point validates, creates a signer and issues requests.            *)
(*                                                                         *)
(* Strings are sequences of characters (one-character TLA+ strings; the    *)
(* cents sign U+00A2 is the atom CENT, the not sign U+00AC the atom        *)
(* NOT_SIGN).  JavaScript numbers are exact decimals m / 10^e (IEEE-754    *)
(* rounding is not modelled), NaN, or +-Infinity.                          *)
(***************************************************************************)
EXTENDS Integers, Sequences, FiniteSets, TLC

VARIABLES
    tok,        \* AmountSpec: the amount token under test (a string)
    apc,        \* AmountSpec: "input" | "parsed"
    rSingle,    \* AmountSpec: result of the single-send parseAmount
    rBatch,     \* AmountSpec: result of the batch-send parseAmount
    fname,      \* FunctionSpec: the function under test
    farg,       \* FunctionSpec: its argument
    fres,       \* FunctionSpec: what it returned or threw
    fpc,        \* FunctionSpec: "input" | "applied"
    cmd,        \* the entry point that runs
    env,        \* process.env: the variables the entry points read
    argv,       \* the command line: positional arguments and options
    args,       \* the command line as the argument parser delivers it
    doc,        \* the JSON document behind the input (URL, file or inline)
    pc,         \* where the entry point is
    receiverIdentity,   \* the platform of the request path
    receiver,   \* single payment: the receiver
    amount,     \* single payment: the amount
    receivers,  \* batch payment: the {receiver, amount} list
    groups,     \* ai-agent: the per-platform groups still to be paid
    extracted,  \* ai-agent: main's instructions, as parsePaymentRequest returned them
    typed,      \* campaign: the answers typed at the confirmation prompt
    useSolana,  \* the values assigned to useSolana, in order: empty while unassigned
    signers,    \* the signers created so far, in order
    netlog,     \* every network I/O so far, in order: "fetch", "llm", "post"
    posts,      \* the payment-API requests issued so far, in order
    exitCode,   \* -1 while running, then the process exit status
    err,        \* why the process ended
    dargs,      \* dispatcher: process.argv.slice(2), a list of words
    dpc,        \* dispatcher: "idle", "main", "running" or "exited"
    children,   \* dispatcher: the children spawned so far, in order
    event,      \* dispatcher: the event its child emitted, if any
    dcode       \* dispatcher: -1 while running, then its exit status

avars == <<tok, apc, rSingle, rBatch>>

fvars == <<fname, farg, fres, fpc>>

\* What an invocation is given, and what it computes.
given == <<cmd, env, argv, args, doc>>

pvars == <<given, pc, receiverIdentity, receiver, amount, receivers, groups,
           extracted, typed,
           useSolana, signers, netlog, posts, exitCode, err>>

dvars == <<dargs, dpc, children, event, dcode>>

vars == <<avars, fvars, pvars, dvars>>

----------------------------------------------------------------------------
(* Characters and strings *)

CENT == "cent"

NOT_SIGN == "not"

\* The string literal both amount parsers test the token's end for.  In the
\* source file it is the two characters U+00AC U+00A2 (bytes C2 AC C2 A2),
\* not the single cents sign U+00A2 a user types.
CENTS_SUFFIX == <<NOT_SIGN, CENT>>

Digits == {"0", "1", "2", "3", "4", "5", "6", "7", "8", "9"}

Lower == {"a", "b", "c", "d", "e", "f", "g", "h", "i", "j", "k", "l", "m",
          "n", "o", "p", "q", "r", "s", "t", "u", "v", "w", "x", "y", "z"}

Upper == {"A", "B", "C", "D", "E", "F", "G", "H", "I", "J", "K", "L", "M",
          "N", "O", "P", "Q", "R", "S", "T", "U", "V", "W", "X", "Y", "Z"}

WhiteSpace == {" "}

DigitVal(c) ==
    CASE c = "0" -> 0 [] c = "1" -> 1 [] c = "2" -> 2 [] c = "3" -> 3
      [] c = "4" -> 4 [] c = "5" -> 5 [] c = "6" -> 6 [] c = "7" -> 7
      [] c = "8" -> 8 [] c = "9" -> 9

RECURSIVE DigitsValue(_)
DigitsValue(ds) ==
    IF ds = <<>> THEN 0
    ELSE 10 * DigitsValue(SubSeq(ds, 1, Len(ds) - 1)) + DigitVal(ds[Len(ds)])

RECURSIVE Pow10(_)
Pow10(n) == IF n = 0 THEN 1 ELSE 10 * Pow10(n - 1)

\* The first index >= i of s whose character is not in S (Len(s)+1 if none).
RECURSIVE RunEnd(_, _, _)
RunEnd(s, i, S) ==
    IF i <= Len(s) /\ s[i] \in S THEN RunEnd(s, i + 1, S) ELSE i

\* The last index <= i of s whose character is not in S (0 if none).
RECURSIVE RunStart(_, _, _)
RunStart(s, i, S) ==
    IF i >= 1 /\ s[i] \in S THEN RunStart(s, i - 1, S) ELSE i

startsWith(s, p) == Len(s) >= Len(p) /\ SubSeq(s, 1, Len(p)) = p

endsWith(s, p) ==
    Len(s) >= Len(p) /\ SubSeq(s, Len(s) - Len(p) + 1, Len(s)) = p

StartsWithAt(s, i, p) ==
    Len(s) >= i + Len(p) - 1 /\ SubSeq(s, i, i + Len(p) - 1) = p

trimStart(s) == SubSeq(s, RunEnd(s, 1, WhiteSpace), Len(s))

trimEnd(s) == SubSeq(s, 1, RunStart(s, Len(s), WhiteSpace))

trim(s) == trimEnd(trimStart(s))

----------------------------------------------------------------------------
(* JavaScript numbers *)

NaN == [k |-> "nan", m |-> 0, e |-> 0]

Infinity(neg) == [k |-> "inf", m |-> IF neg THEN -1 ELSE 1, e |-> 0]

\* m / 10^e in lowest decimal terms.
RECURSIVE Fin(_, _)
Fin(m, e) ==
    IF e > 0 /\ m % 10 = 0 THEN Fin(m \div 10, e - 1)
    ELSE [k |-> "fin", m |-> m, e |-> e]

isNaN(v) == v.k = "nan"

\* v / 100
Div100(v) == IF v.k = "fin" THEN Fin(v.m, v.e + 2) ELSE v

INFINITY == <<"I", "n", "f", "i", "n", "i", "t", "y">>

\* m / 10^scale for a scale of either sign
Decimal(m, scale) ==
    IF scale >= 0 THEN Fin(m, scale) ELSE Fin(m * Pow10(0 - scale), 0)

\* The value of the exponent part at index i of t; 0 when there is none.
ExponentPart(t, i) ==
    IF ~(i <= Len(t) /\ t[i] \in {"e", "E"}) THEN 0
    ELSE IF i + 1 <= Len(t) /\ t[i + 1] = "-"
    THEN 0 - DigitsValue(SubSeq(t, i + 2, RunEnd(t, i + 2, Digits) - 1))
    ELSE IF i + 1 <= Len(t) /\ t[i + 1] = "+"
    THEN DigitsValue(SubSeq(t, i + 2, RunEnd(t, i + 2, Digits) - 1))
    ELSE DigitsValue(SubSeq(t, i + 1, RunEnd(t, i + 1, Digits) - 1))

\* The first index after the fraction part that may start at index i of t.
FractionEnd(t, i) ==
    IF i <= Len(t) /\ t[i] = "." THEN RunEnd(t, i + 1, Digits) ELSE i

\* The number written with integer digits ints, fraction digits fracs and
\* exponent ex; NaN when there is no digit at all.
StrDecimalValue(neg, ints, fracs, ex) ==
    IF ints = <<>> /\ fracs = <<>> THEN NaN
    ELSE Decimal((IF neg THEN -1 ELSE 1) * DigitsValue(ints \o fracs),
                 Len(fracs) - ex)

\* The digits of t are t[i1 .. i2-1] and, after a dot at i2, t[i2+1 .. i3-1].
StrDecimalParts(t, neg, i1, i2, i3) ==
    StrDecimalValue(neg, SubSeq(t, i1, i2 - 1), SubSeq(t, i2 + 1, i3 - 1),
                    ExponentPart(t, i3))

StrDecimalFrom(t, neg, i1, i2) ==
    StrDecimalParts(t, neg, i1, i2, FractionEnd(t, i2))

\* The longest prefix of t from index i1 that is an unsigned literal.
StrUnsignedDecimal(t, neg, i1) ==
    IF StartsWithAt(t, i1, INFINITY) THEN Infinity(neg)
    ELSE StrDecimalFrom(t, neg, i1, RunEnd(t, i1, Digits))

StrDecimalLiteral(t, signed) ==
    StrUnsignedDecimal(t, signed /\ t[1] = "-", IF signed THEN 2 ELSE 1)

\* parseFloat: leading white space is skipped, then the longest prefix that is
\* a StrDecimalLiteral is converted; NaN when there is none.  Whatever follows
\* the prefix is ignored.
parseFloatTrimmed(t) ==
    StrDecimalLiteral(t, Len(t) >= 1 /\ t[1] \in {"+", "-"})

parseFloat(s) == parseFloatTrimmed(trimStart(s))

----------------------------------------------------------------------------
(* JavaScript values as the argument parser and JSON deliver them *)

Str(s) == [t |-> "string", s |-> s, n |-> NaN]

Num(n) == [t |-> "number", s |-> <<>>, n |-> n]

Undefined == [t |-> "undefined", s |-> <<>>, n |-> NaN]

True == [t |-> "boolean", s |-> <<>>, n |-> NaN]

Null == [t |-> "null", s |-> <<>>, n |-> NaN]

\* A value that is neither a primitive nor undefined: an object, an array or
\* a function.
Inherited == [t |-> "object", s |-> <<>>, n |-> NaN]

\* ToBoolean
Truthy(v) ==
    CASE v.t = "string"    -> v.s # <<>>
      [] v.t = "number"    -> ~(v.n.k = "nan" \/ (v.n.k = "fin" /\ v.n.m = 0))
      [] v.t = "boolean"   -> TRUE
      [] v.t = "object"    -> TRUE
      [] v.t = "undefined" -> FALSE
      [] v.t = "null"      -> FALSE

----------------------------------------------------------------------------
(* parseAmount, both variants.  A result [ok, v, err] is a returned value or  *)
(* a throw.                                                                 *)

Return(v) == [ok |-> TRUE, v |-> v, err |-> "none"]

Throw(e) == [ok |-> FALSE, v |-> NaN, err |-> e]

\* const cents = parseFloat(...); if (isNaN(cents)) throw; return cents / 100
CentsAmount(cents) ==
    IF isNaN(cents) THEN Throw("InvalidCents") ELSE Return(Div100(cents))

\* const dollars = parseFloat(dollarPart); if (isNaN(dollars)) throw
DollarAmount(dollars) ==
    IF isNaN(dollars) THEN Throw("InvalidDollar") ELSE Return(dollars)

\* const amount = parseFloat(trimmed); if (isNaN(amount)) throw
PlainAmount(parsed) ==
    IF isNaN(parsed) THEN Throw("InvalidAmount") ELSE Return(parsed)

\* A faulty test: no dollar part is ever taken for a whole number.
AllDigitsNever(dollarPart) == FALSE

\* /^\d+$/.test(dollarPart)
AllDigits(dollarPart) ==
    dollarPart # <<>> /\ RunEnd(dollarPart, 1, Digits) > Len(dollarPart)

\* The single-send "$" branch: a whole-dollar amount is refused.
DollarAmountSend(dollarPart) ==
    IF AllDigits(dollarPart) THEN Throw("ShellHazard")
    ELSE DollarAmount(parseFloat(dollarPart))

parseAmountTrimmed(trimmed) ==
    IF endsWith(trimmed, CENTS_SUFFIX)
    THEN CentsAmount(parseFloat(SubSeq(trimmed, 1, Len(trimmed) - 1)))
    ELSE IF startsWith(trimmed, <<"$">>)
    THEN DollarAmountSend(SubSeq(trimmed, 2, Len(trimmed)))
    ELSE PlainAmount(parseFloat(trimmed))

\* The single-send parseAmount.
parseAmount(amountStr) ==
    IF amountStr.t # "string" THEN Throw("TypeError")
    ELSE parseAmountTrimmed(trim(amountStr.s))

parseAmountBatchTrimmed(trimmed) ==
    IF endsWith(trimmed, CENTS_SUFFIX)
    THEN CentsAmount(parseFloat(SubSeq(trimmed, 1, Len(trimmed) - 1)))
    ELSE IF startsWith(trimmed, <<"$">>)
    THEN DollarAmount(parseFloat(SubSeq(trimmed, 2, Len(trimmed))))
    ELSE PlainAmount(parseFloat(trimmed))

\* A faulty batch variant: a value that is already a number is not passed
\* through.
parseAmountBatchStringsOnly(amountStr) ==
    IF amountStr.t # "string" THEN Throw("TypeError")
    ELSE parseAmountBatchTrimmed(trim(amountStr.s))

\* The batch-send parseAmount.
parseAmountBatch(amountStr) ==
    IF amountStr.t = "number" THEN Return(amountStr.n)
    ELSE IF amountStr.t # "string" THEN Throw("TypeError")
    ELSE parseAmountBatchTrimmed(trim(amountStr.s))

----------------------------------------------------------------------------
(* More string operations *)

UpperSeq == <<"A", "B", "C", "D", "E", "F", "G", "H", "I", "J", "K", "L", "M",
              "N", "O", "P", "Q", "R", "S", "T", "U", "V", "W", "X", "Y", "Z">>

LowerSeq == <<"a", "b", "c", "d", "e", "f", "g", "h", "i", "j", "k", "l", "m",
              "n", "o", "p", "q", "r", "s", "t", "u", "v", "w", "x", "y", "z">>

ToLowerChar(c) ==
    IF c \in Upper
    THEN LowerSeq[CHOOSE i \in 1..Len(UpperSeq) : UpperSeq[i] = c]
    ELSE c

toLowerCase(s) == [i \in 1..Len(s) |-> ToLowerChar(s[i])]

\* String.prototype.includes
includes(s, p) == \E i \in 1..(Len(s) + 1) : StartsWithAt(s, i, p)

\* The first index >= i of s whose character is c (Len(s)+1 if none).
RECURSIVE IndexFrom(_, _, _)
IndexFrom(s, i, c) ==
    IF i <= Len(s) /\ s[i] # c THEN IndexFrom(s, i + 1, c) ELSE i

\* The last index <= i of s whose character is c (0 if none).
RECURSIVE LastIndexFrom(_, _, _)
LastIndexFrom(s, i, c) ==
    IF i >= 1 /\ s[i] # c THEN LastIndexFrom(s, i - 1, c) ELSE i

\* String.prototype.split on a one-character separator, from index i on
RECURSIVE SplitFrom(_, _, _)
SplitFrom(s, i, sep) ==
    IF IndexFrom(s, i, sep) > Len(s) THEN <<SubSeq(s, i, Len(s))>>
    ELSE <<SubSeq(s, i, IndexFrom(s, i, sep) - 1)>>
             \o SplitFrom(s, IndexFrom(s, i, sep) + 1, sep)

split(s, sep) == SplitFrom(s, 1, sep)

AllIn(s, S) == \A i \in 1..Len(s) : s[i] \in S

AlNum == Lower \cup Upper \cup Digits

Letters == Lower \cup Upper

----------------------------------------------------------------------------
(* Receiver validation: TRUE when the validator returns without throwing. *)

\* /^[a-zA-Z0-9_]{1,15}$/
validateXUsernameUpTo16(username) ==
    Len(username) \in 1..16 /\ AllIn(username, AlNum \cup {"_"})

validateXUsername(username) ==
    Len(username) \in 1..15 /\ AllIn(username, AlNum \cup {"_"})

\* /^[a-zA-Z0-9][a-zA-Z0-9_-]{0,15}$/
validateFarcasterUsername(username) ==
    /\ Len(username) \in 1..16
    /\ username[1] \in AlNum
    /\ AllIn(username, AlNum \cup {"_", "-"})

\* /^[a-zA-Z0-9]([a-zA-Z0-9-]{0,37}[a-zA-Z0-9])?$/ and not /--/
validateGitHubUsername(username) ==
    /\ Len(username) \in 1..39
    /\ username[1] \in AlNum
    /\ username[Len(username)] \in AlNum
    /\ AllIn(username, AlNum \cup {"-"})
    /\ ~includes(username, <<"-", "-">>)

\* /^[a-zA-Z0-9._%+-]+@[a-zA-Z0-9.-]+\.[a-zA-Z]{2,}$/
validateEmail(email) ==
    \E i \in 1..Len(email) : \E j \in (i + 1)..Len(email) :
        /\ email[i] = "@"
        /\ email[j] = "."
        /\ i > 1
        /\ AllIn(SubSeq(email, 1, i - 1), AlNum \cup {".", "_", "%", "+", "-"})
        /\ j > i + 1
        /\ AllIn(SubSeq(email, i + 1, j - 1), AlNum \cup {".", "-"})
        /\ Len(email) - j >= 2
        /\ AllIn(SubSeq(email, j + 1, Len(email)), Letters)

\* [a-zA-Z0-9]([a-zA-Z0-9-]{0,61}[a-zA-Z0-9])?
ValidDomainLabel(label) ==
    /\ Len(label) \in 1..63
    /\ label[1] \in AlNum
    /\ label[Len(label)] \in AlNum
    /\ AllIn(label, AlNum \cup {"-"})

\* (label\.)+[a-zA-Z]{2,} over the dot-separated labels
ValidDomainLabels(labels) ==
    /\ Len(labels) >= 2
    /\ \A i \in 1..(Len(labels) - 1) : ValidDomainLabel(labels[i])
    /\ Len(labels[Len(labels)]) >= 2
    /\ AllIn(labels[Len(labels)], Letters)

validateWebDomain(domain) == ValidDomainLabels(split(domain, "."))

----------------------------------------------------------------------------
(* Platform normalisation *)

X == <<"x">>

FARCASTER == <<"f", "a", "r", "c", "a", "s", "t", "e", "r">>

GITHUB == <<"g", "i", "t", "h", "u", "b">>

EMAIL == <<"e", "m", "a", "i", "l">>

WEB == <<"w", "e", "b">>

DOT_COM == <<".", "c", "o", "m">>

TWITTER == <<"t", "w", "i", "t", "t", "e", "r">>

\* The all-lower-case property names every object literal inherits.
ObjectPrototypeKeys ==
    { <<"c", "o", "n", "s", "t", "r", "u", "c", "t", "o", "r">>,
      <<"_", "_", "p", "r", "o", "t", "o", "_", "_">> }

\* platformMap[lower]
platformMap(lower) ==
    CASE lower \in {X, X \o DOT_COM, TWITTER, TWITTER \o DOT_COM} -> Str(X)
      [] lower \in {FARCASTER, FARCASTER \o <<".", "x", "y", "z">>} -> Str(FARCASTER)
      [] lower \in {GITHUB, GITHUB \o DOT_COM} -> Str(GITHUB)
      [] lower = EMAIL -> Str(EMAIL)
      [] lower = WEB -> Str(WEB)
      [] lower \in ObjectPrototypeKeys -> Inherited
      [] OTHER -> Undefined

\* if (!normalized) throw ...; return normalized
NormalizedPlatform(normalized) ==
    IF ~Truthy(normalized) THEN Throw("UnknownPlatform")
    ELSE Return(normalized)

normalizePlatform(platform) ==
    IF platform.t # "string" THEN Throw("TypeError")
    ELSE NormalizedPlatform(platformMap(toLowerCase(platform.s)))

\* validateReceiver's switch (also inlined in parsePaymentTarget): TRUE when no
\* validator throws; an identity outside the five cases is not validated.
validateReceiver(platform, username) ==
    IF platform.t # "string" THEN TRUE
    ELSE CASE platform.s = X         -> validateXUsername(username)
           [] platform.s = FARCASTER -> validateFarcasterUsername(username)
           [] platform.s = GITHUB    -> validateGitHubUsername(username)
           [] platform.s = EMAIL     -> validateEmail(username)
           [] platform.s = WEB       -> validateWebDomain(username)
           [] OTHER                  -> TRUE

\* parsePaymentTarget's result: [ok, identity, receiver, err]
TargetError(e) ==
    [ok |-> FALSE, identity |-> Undefined, receiver |-> <<>>, err |-> e]

TargetOf(identity, username) ==
    IF ~identity.ok THEN TargetError(identity.err)
    ELSE IF ~validateReceiver(identity.v, username)
    THEN TargetError("InvalidReceiver")
    ELSE [ok |-> TRUE, identity |-> identity.v, receiver |-> username,
          err |-> "none"]

TargetOfParts(parts) ==
    IF Len(parts) # 2 THEN TargetError("MalformedTarget")
    ELSE TargetOf(normalizePlatform(Str(parts[1])), parts[2])

parsePaymentTarget(target) ==
    IF target.t # "string" THEN TargetError("TypeError")
    ELSE TargetOfParts(split(target.s, "/"))

allowedIdentities == {X, FARCASTER, WEB, EMAIL, GITHUB}

----------------------------------------------------------------------------
(* The argument parser (minimist) *)

HexDigits == Digits \cup {"a", "b", "c", "d", "e", "f", "A", "B", "C", "D", "E", "F"}

\* /^0x[0-9a-f]+$/i
IsHexLiteral(x) ==
    /\ Len(x) >= 3
    /\ x[1] = "0"
    /\ x[2] \in {"x", "X"}
    /\ AllIn(SubSeq(x, 3, Len(x)), HexDigits)

\* \d+$ from index j
DigitsToEnd(x, j) == j <= Len(x) /\ RunEnd(x, j, Digits) > Len(x)

\* (e[-+]?\d+)?$ from index i
ExponentSuffixOk(x, i) ==
    IF i > Len(x) THEN TRUE
    ELSE /\ x[i] = "e"
         /\ DigitsToEnd(x, IF i + 1 <= Len(x) /\ x[i + 1] \in {"+", "-"}
                           THEN i + 2 ELSE i + 1)

\* (?:\d+(?:\.\d*)?|\.\d+)(e[-+]?\d+)?$ from index i1, whose digit run ends
\* before index i2
MantissaOk(x, i1, i2) ==
    IF i2 > i1 THEN ExponentSuffixOk(x, FractionEnd(x, i2))
    ELSE /\ i2 <= Len(x)
         /\ x[i2] = "."
         /\ RunEnd(x, i2 + 1, Digits) > i2 + 1
         /\ ExponentSuffixOk(x, RunEnd(x, i2 + 1, Digits))

UnsignedDecimalOk(x, i1) == MantissaOk(x, i1, RunEnd(x, i1, Digits))

\* /^[-+]?(?:\d+(?:\.\d*)?|\.\d+)(e[-+]?\d+)?$/
IsDecimalLiteral(x) ==
    UnsignedDecimalOk(x, IF Len(x) >= 1 /\ x[1] \in {"+", "-"} THEN 2 ELSE 1)

isNumber(x) == IsHexLiteral(x) \/ IsDecimalLiteral(x)

HexDigitVal(c) ==
    IF c \in Digits THEN DigitVal(c)
    ELSE CASE c \in {"a", "A"} -> 10 [] c \in {"b", "B"} -> 11
           [] c \in {"c", "C"} -> 12 [] c \in {"d", "D"} -> 13
           [] c \in {"e", "E"} -> 14 [] c \in {"f", "F"} -> 15

RECURSIVE HexValue(_)
HexValue(ds) ==
    IF ds = <<>> THEN 0
    ELSE 16 * HexValue(SubSeq(ds, 1, Len(ds) - 1)) + HexDigitVal(ds[Len(ds)])

\* Number(x) for an x that isNumber accepts
ToNumber(x) ==
    IF IsHexLiteral(x) THEN Fin(HexValue(SubSeq(x, 3, Len(x))), 0)
    ELSE parseFloat(x)

\* The value the parser stores for a raw argv string (a positional argument or
\* an option's value): a number when it looks like one, the string otherwise.
minimistValue(raw) == IF isNumber(raw) THEN Num(ToNumber(raw)) ELSE Str(raw)

\* An option as it appears on the command line.
Absent == [given |-> FALSE, hasValue |-> FALSE, raw |-> <<>>]

Bare == [given |-> TRUE, hasValue |-> FALSE, raw |-> <<>>]

Given(raw) == [given |-> TRUE, hasValue |-> TRUE, raw |-> raw]

\* args.<option>: undefined when absent, true when given without a value.
minimistOption(opt) ==
    IF ~opt.given THEN Undefined
    ELSE IF ~opt.hasValue THEN True
    ELSE minimistValue(opt.raw)

\* minimist(process.argv.slice(2)): args._ and the options the entry points
\* read.
minimist(line) ==
    [ positional |-> [i \in 1..Len(line.positional) |->
                         minimistValue(line.positional[i])],
      network |-> minimistOption(line.network),
      receiver_identity |-> minimistOption(line.receiver_identity),
      receiver |-> minimistOption(line.receiver),
      amount |-> minimistOption(line.amount),
      receivers |-> minimistOption(line.receivers),
      prompt |-> minimistOption(line.prompt) ]

----------------------------------------------------------------------------
(* Network selection: the block every entry point repeats. *)

BASE == <<"b", "a", "s", "e">>

SOLANA == <<"s", "o", "l", "a", "n", "a">>

allowedNetworks == {BASE, SOLANA}

\* The block's outcome, [ok, useSolana, err]: err is the reason the process
\* ends.
NetworkFail(e) == [ok |-> FALSE, useSolana |-> FALSE, err |-> e]

NetworkUse(b) == [ok |-> TRUE, useSolana |-> b, err |-> "none"]

\* A faulty check: a missing key makes the other network be used.
ExplicitNetworkOrOther(solana, evmKey, svmKey) ==
    IF solana /\ ~svmKey /\ evmKey THEN NetworkUse(FALSE)
    ELSE IF ~solana /\ ~evmKey /\ svmKey THEN NetworkUse(TRUE)
    ELSE IF solana /\ ~svmKey THEN NetworkFail("MissingCredential")
    ELSE IF ~solana /\ ~evmKey THEN NetworkFail("MissingCredential")
    ELSE NetworkUse(solana)

\* useSolana = network === "solana", then the check of that network's key
ExplicitNetwork(solana, evmKey, svmKey) ==
    IF solana /\ ~svmKey THEN NetworkFail("MissingCredential")
    ELSE IF ~solana /\ ~evmKey THEN NetworkFail("MissingCredential")
    ELSE NetworkUse(solana)

\* The branch of a truthy args.network, given args.network.toLowerCase()
ValidatedNetwork(lower, evmKey, svmKey) ==
    IF lower \notin allowedNetworks THEN NetworkFail("InvalidNetwork")
    ELSE ExplicitNetwork(lower = SOLANA, evmKey, svmKey)

\* A faulty auto-detection: Base is preferred when both keys are set.
AutoDetectPreferBase(evmKey, svmKey) ==
    IF evmKey THEN NetworkUse(FALSE)
    ELSE IF svmKey THEN NetworkUse(TRUE)
    ELSE NetworkFail("NoCredential")

\* The branch of a falsy args.network
AutoDetectNetwork(evmKey, svmKey) ==
    IF evmKey /\ svmKey THEN NetworkFail("AmbiguousNetwork")
    ELSE IF svmKey THEN NetworkUse(TRUE)
    ELSE IF evmKey THEN NetworkUse(FALSE)
    ELSE NetworkFail("NoCredential")

\* "TypeError" is the uncaught exception of calling toLowerCase on a value
\* that is not a string.
selectNetwork(network, evmKey, svmKey) ==
    IF Truthy(network)
    THEN IF network.t # "string" THEN NetworkFail("TypeError")
         ELSE ValidatedNetwork(toLowerCase(network.s), evmKey, svmKey)
    ELSE AutoDetectNetwork(evmKey, svmKey)

LOCALHOST == <<"l", "o", "c", "a", "l", "h", "o", "s", "t">>

LOOPBACK == <<"1", "2", "7", ".", "0", ".", "0", ".", "1">>

\* The network name a signer is created for.
signerNetwork(solana, url) ==
    IF solana
    THEN IF includes(url, LOCALHOST) \/ includes(url, LOOPBACK)
         THEN "solana-devnet" ELSE "solana"
    ELSE "base"

\* useSolana ? (network === "solana" ? "Solana Mainnet" : "Solana Devnet") : "Base"
networkName(solana, network) ==
    IF solana THEN (IF network = "solana" THEN "Solana Mainnet" ELSE "Solana Devnet")
    ELSE "Base"

\* ai-agent computes the displayed name from the base URL again.
agentNetworkName(solana, url) ==
    IF solana
    THEN IF includes(url, LOCALHOST) \/ includes(url, LOOPBACK)
         THEN "Solana Devnet" ELSE "Solana Mainnet"
    ELSE "Base"

\* const cluster = network === 'solana' ? '' : '?cluster=devnet', for a Solana
\* transaction
explorerCluster(network) == IF network = "solana" THEN "" ELSE "?cluster=devnet"

----------------------------------------------------------------------------
(* Batch descriptors: the comma-separated form and the JSON form.           *)
(* A descriptor result is [ok, platform, payments, err].                    *)

BatchError(e) == [ok |-> FALSE, platform |-> Undefined, payments |-> <<>>, err |-> e]

\* payments.push({receiver, amount: parseAmount(...)}) after validateReceiver;
\* the receivers of the documents considered are strings or absent.
CheckedItem(platform, item, parsed) ==
    IF ~validateReceiver(platform, item.receiver.s) THEN BatchError("InvalidReceiver")
    ELSE IF ~parsed.ok THEN BatchError(parsed.err)
    ELSE [ok |-> TRUE, platform |-> platform,
          payments |-> <<[receiver |-> item.receiver, amount |-> Num(parsed.v)]>>,
          err |-> "none"]

\* One iteration of parseJSONPayments' loop.
JSONItem(platform, payment) ==
    IF ~Truthy(payment.receiver) THEN BatchError("MissingReceiver")
    ELSE IF payment.amount.t = "undefined" THEN BatchError("MissingAmount")
    ELSE CheckedItem(platform, payment, parseAmountBatch(payment.amount))

\* One iteration of parseCommaSeparated's loop, given pair.lastIndexOf(':').
PairItem(platform, pair, colonIndex) ==
    IF colonIndex = 0 THEN BatchError("MissingAmount")
    ELSE CheckedItem(platform,
                     [receiver |-> Str(SubSeq(pair, 1, colonIndex - 1))],
                     parseAmountBatch(Str(SubSeq(pair, colonIndex + 1, Len(pair)))))

\* The loop stops at the first item that throws.
ItemThen(head, rest) ==
    IF ~head.ok THEN head
    ELSE IF ~rest.ok THEN rest
    ELSE [head EXCEPT !.payments = head.payments \o rest.payments]

RECURSIVE JSONItems(_, _, _)
JSONItems(platform, payments, i) ==
    IF i > Len(payments)
    THEN [ok |-> TRUE, platform |-> platform, payments |-> <<>>, err |-> "none"]
    ELSE ItemThen(JSONItem(platform, payments[i]),
                  JSONItems(platform, payments, i + 1))

RECURSIVE PairItems(_, _, _)
PairItems(platform, pairs, i) ==
    IF i > Len(pairs)
    THEN [ok |-> TRUE, platform |-> platform, payments |-> <<>>, err |-> "none"]
    ELSE ItemThen(PairItem(platform, pairs[i],
                           LastIndexFrom(pairs[i], Len(pairs[i]), ":")),
                  PairItems(platform, pairs, i + 1))

\* A JSON document {platform, payments} is [avail, platform, isArray,
\* payments]: avail is FALSE when the source cannot be read or is not JSON,
\* isArray tells whether its payments field is an array.
JSONPaymentsOf(platform, payments) ==
    IF ~platform.ok THEN BatchError(platform.err)
    ELSE JSONItems(platform.v, payments, 1)

parseJSONPayments(data) ==
    IF ~Truthy(data.platform) THEN BatchError("MissingPlatform")
    ELSE IF ~data.isArray THEN BatchError("PaymentsNotArray")
    ELSE JSONPaymentsOf(normalizePlatform(data.platform), data.payments)

CommaSeparatedOf(platform, pairs) ==
    IF ~platform.ok THEN BatchError(platform.err)
    ELSE PairItems(platform.v, pairs, 1)

CommaSeparatedAt(input, firstSlash) ==
    IF firstSlash > Len(input) THEN BatchError("MalformedInput")
    ELSE CommaSeparatedOf(normalizePlatform(Str(SubSeq(input, 1, firstSlash - 1))),
                          split(SubSeq(input, firstSlash + 1, Len(input)), ","))

parseCommaSeparated(input) == CommaSeparatedAt(input, IndexFrom(input, 1, "/"))

HTTP == <<"h", "t", "t", "p", ":", "/", "/">>

HTTPS == <<"h", "t", "t", "p", "s", ":", "/", "/">>

\* The inline-JSON test made before the file test.
InputKindBraceFirst(input) ==
    IF startsWith(input, HTTP) \/ startsWith(input, HTTPS) THEN "url"
    ELSE IF startsWith(input, <<"{">>) THEN "json"
    ELSE IF startsWith(input, <<"f", "i", "l", "e", ":">>)
            \/ endsWith(input, <<".", "j", "s", "o", "n">>) THEN "file"
    ELSE "csv"

\* loadFromFile: filePath.startsWith('file:') ? filePath.substring(5) : filePath
cleanPath(filePath) ==
    IF startsWith(filePath, <<"f", "i", "l", "e", ":">>)
    THEN SubSeq(filePath, 6, Len(filePath))
    ELSE filePath

\* What an interpretation reads: the URL fetched, the path of the file read,
\* the text parsed.
InputSource(kind, input) == IF kind = "file" THEN cleanPath(input) ELSE input

\* The interpretation parseInput selects for its input.
InputKind(input) ==
    IF startsWith(input, HTTP) \/ startsWith(input, HTTPS) THEN "url"
    ELSE IF startsWith(input, <<"f", "i", "l", "e", ":">>)
            \/ endsWith(input, <<".", "j", "s", "o", "n">>) THEN "file"
    ELSE IF startsWith(input, <<"{">>) THEN "json"
    ELSE "csv"

\* The descriptor of an input of a given kind, whose document is data.
DescriptorOf(kind, input, data) ==
    IF kind = "csv" THEN parseCommaSeparated(input)
    ELSE IF ~data.avail THEN BatchError("LoadFailed")
    ELSE parseJSONPayments(data)

----------------------------------------------------------------------------
(* What every entry point shares: the environment, exits, signers, requests *)

DEFAULT_URL == <<"h", "t", "t", "p", "s", ":", "/", "/", "a", "p", "i", ".",
                 "s", "n", "a", "c", "k", ".", "m", "o", "n", "e", "y">>

\* process.env.RESOURCE_SERVER_URL || "https://api.snack.money"
baseURL ==
    IF Truthy(env.RESOURCE_SERVER_URL) THEN env.RESOURCE_SERVER_URL.s
    ELSE DEFAULT_URL

hasEvmKey == Truthy(env.EVM_PRIVATE_KEY)

hasSvmKey == Truthy(env.SVM_PRIVATE_KEY)

\* The process ends: process.exit(code), the end of the script (code 0), or an
\* uncaught exception / unhandled rejection (code 1).
Exit(code, why) ==
    /\ pc' = "exited"
    /\ exitCode' = code
    /\ err' = why

\* The step goes on to the next one.
Goto(next) ==
    /\ pc' = next
    /\ UNCHANGED <<exitCode, err>>

\* The outcome of a request as the entry point sees it: a 2xx response, a 2xx
\* response whose x-payment-response header does not decode, or a failure (a
\* non-2xx status or no response at all).
Responses == {"ok", "badHeader", "failed"}

\* A faulty signer: always the Base signer, whatever was selected.
newSignerAlwaysBase == [network |-> "base", key |-> env.EVM_PRIVATE_KEY]

\* if (useSolana) createSigner(network, svmPrivateKey) else
\* privateKeyToAccount(privateKey): the signer the entry point creates.
newSigner ==
    [ network |-> signerNetwork(useSolana[Len(useSolana)], baseURL),
      key |-> IF useSolana[Len(useSolana)] THEN env.SVM_PRIVATE_KEY
              ELSE env.EVM_PRIVATE_KEY ]

\* A request to the payment API, with the response it got.
Request(endpoint, platform, body, response) ==
    [ endpoint |-> endpoint,
      platform |-> platform,
      network |-> signers[Len(signers)].network,
      body |-> body,
      response |-> response ]

\* The body of a request: one payment, a list of payments, or a campaign.
Body(a, r, rs) == [amount |-> a, receiver |-> r, receivers |-> rs]

\* The outcome sel of the network-selection block is acted upon.
NetworkSelected(sel, next) ==
    IF sel.ok
    THEN /\ useSolana' = Append(useSolana, sel.useSolana)
         /\ Goto(next)
    ELSE /\ Exit(1, sel.err)
         /\ UNCHANGED useSolana

\* The block that determines useSolana, at a given position of an entry point.
SelectNetworkStep(next) ==
    NetworkSelected(selectNetwork(args.network, hasEvmKey, hasSvmKey), next)

\* Signer creation: a throw from the signing library ends the process.
CreateSignerStep(next) ==
    \E created \in BOOLEAN :
        IF created
        THEN /\ signers' = Append(signers, newSigner)
             /\ Goto(next)
        ELSE /\ Exit(1, "SignerFailed")
             /\ UNCHANGED signers

\* A faulty request step: the catch block does not exit, so the script ends
\* with status 0 whatever the response.
PostStepNoExit(endpoint, platform, body) ==
    \E response \in Responses :
        /\ netlog' = Append(netlog, "post")
        /\ posts' = Append(posts, Request(endpoint, platform, body, response))
        /\ Exit(0, IF response = "ok" THEN "none" ELSE "RequestFailed")

\* A faulty request step: a failed request is issued again.
PostStepRetry(endpoint, platform, body) ==
    \E response \in Responses :
        /\ netlog' = Append(netlog, "post")
        /\ posts' = Append(posts, Request(endpoint, platform, body, response))
        /\ IF response = "ok" THEN Exit(0, "none")
           ELSE IF response = "badHeader" THEN Exit(1, "ReceiptFailed")
           ELSE UNCHANGED <<pc, exitCode, err>>

\* api.post(...) inside try/catch: the catch and a header that fails to decode
\* exit 1; otherwise the script ends.
PostStep(endpoint, platform, body) ==
    \E response \in Responses :
        /\ netlog' = Append(netlog, "post")
        /\ posts' = Append(posts, Request(endpoint, platform, body, response))
        /\ IF response = "ok" THEN Exit(0, "none")
           ELSE IF response = "badHeader" THEN Exit(1, "ReceiptFailed")
           ELSE Exit(1, "RequestFailed")

----------------------------------------------------------------------------
(* Single send: snackmoney send <platform/user> <amount> *)

\* A faulty argument step: the amount's error is not acted upon, and the
\* payment goes on with whatever was parsed.
SendParsedUnchecked(target, parsed) ==
    IF ~target.ok
    THEN /\ Exit(1, target.err)
         /\ UNCHANGED <<receiverIdentity, receiver, amount>>
    ELSE /\ receiverIdentity' = target.identity
         /\ receiver' = Str(target.receiver)
         /\ amount' = Num(parsed.v)
         /\ Goto("network")

\* The try block's two results are acted upon, then the allowedIdentities
\* check.
SendParsed(target, parsed) ==
    IF ~target.ok
    THEN /\ Exit(1, target.err)
         /\ UNCHANGED <<receiverIdentity, receiver, amount>>
    ELSE IF ~parsed.ok
    THEN /\ Exit(1, parsed.err)
         /\ UNCHANGED <<receiverIdentity, receiver, amount>>
    ELSE IF ~(target.identity.t = "string" /\ target.identity.s \in allowedIdentities)
    THEN /\ Exit(1, "PlatformNotAllowed")
         /\ UNCHANGED <<receiverIdentity, receiver, amount>>
    ELSE /\ receiverIdentity' = target.identity
         /\ receiver' = Str(target.receiver)
         /\ amount' = Num(parsed.v)
         /\ Goto("network")

SendParseArgs ==
    /\ cmd = "send"
    /\ pc = "start"
    /\ IF Len(args.positional) < 2
       THEN /\ Exit(1, "Usage")
            /\ UNCHANGED <<receiverIdentity, receiver, amount>>
       ELSE SendParsed(parsePaymentTarget(args.positional[1]),
                       parseAmount(args.positional[2]))
    /\ UNCHANGED <<given, receivers, groups, extracted, typed, useSolana, signers, netlog, posts>>
    /\ UNCHANGED <<avars, fvars, dvars>>

SendSelectNetwork ==
    /\ cmd = "send"
    /\ pc = "network"
    /\ SelectNetworkStep("signer")
    /\ UNCHANGED <<given, receiverIdentity, receiver, amount, receivers, groups, extracted, typed,
                   signers, netlog, posts>>
    /\ UNCHANGED <<avars, fvars, dvars>>

SendCreateSigner ==
    /\ cmd = "send"
    /\ pc = "signer"
    /\ CreateSignerStep("post")
    /\ UNCHANGED <<given, receiverIdentity, receiver, amount, receivers, groups, extracted, typed,
                   useSolana, netlog, posts>>
    /\ UNCHANGED <<avars, fvars, dvars>>

SendPost ==
    /\ cmd = "send"
    /\ pc = "post"
    /\ PostStep("pay", receiverIdentity, Body(amount, receiver, <<>>))
    /\ UNCHANGED <<given, receiverIdentity, receiver, amount, receivers, groups, extracted, typed,
                   useSolana, signers>>
    /\ UNCHANGED <<avars, fvars, dvars>>

----------------------------------------------------------------------------
(* Batch send: snackmoney batch-send <input> *)

\* parseInput's result is acted upon.
BatchParsed(parsed) ==
    IF ~parsed.ok
    THEN /\ Exit(1, parsed.err)
         /\ UNCHANGED <<receiverIdentity, receivers>>
    ELSE /\ receiverIdentity' = parsed.platform
         /\ receivers' = parsed.payments
         /\ Goto("init")

\* parseInput on a string input of a given kind: a URL is fetched first.
BatchLoad(kind, input) ==
    /\ netlog' = IF kind = "url" THEN Append(netlog, "fetch") ELSE netlog
    /\ BatchParsed(DescriptorOf(kind, input, doc))

\* The usage check, then parseInput.
BatchParseInput ==
    /\ cmd = "batch-send"
    /\ pc = "start"
    /\ IF Len(args.positional) = 0
       THEN /\ Exit(1, "Usage")
            /\ UNCHANGED <<receiverIdentity, receivers, netlog>>
       ELSE IF args.positional[1].t # "string"
       THEN /\ Exit(1, "TypeError")
            /\ UNCHANGED <<receiverIdentity, receivers, netlog>>
       ELSE BatchLoad(InputKind(args.positional[1].s), args.positional[1].s)
    /\ UNCHANGED <<given, receiver, amount, groups, extracted, typed, useSolana, signers, posts>>
    /\ UNCHANGED <<avars, fvars, dvars>>

\* init after parseInput: the allowedIdentities check, then network selection.
BatchInit ==
    /\ cmd = "batch-send"
    /\ pc = "init"
    /\ IF ~(receiverIdentity.t = "string" /\ receiverIdentity.s \in allowedIdentities)
       THEN /\ Exit(1, "PlatformNotAllowed")
            /\ UNCHANGED useSolana
       ELSE SelectNetworkStep("signer")
    /\ UNCHANGED <<given, receiverIdentity, receiver, amount, receivers, groups, extracted, typed,
                   signers, netlog, posts>>
    /\ UNCHANGED <<avars, fvars, dvars>>

BatchCreateSigner ==
    /\ cmd = "batch-send"
    /\ pc = "signer"
    /\ CreateSignerStep("post")
    /\ UNCHANGED <<given, receiverIdentity, receiver, amount, receivers, groups, extracted, typed,
                   useSolana, netlog, posts>>
    /\ UNCHANGED <<avars, fvars, dvars>>

BatchPost ==
    /\ cmd = "batch-send"
    /\ pc = "post"
    /\ PostStep("batch-pay", receiverIdentity, Body(Undefined, Undefined, receivers))
    /\ UNCHANGED <<given, receiverIdentity, receiver, amount, receivers, groups, extracted, typed,
                   useSolana, signers>>
    /\ UNCHANGED <<avars, fvars, dvars>>

----------------------------------------------------------------------------
(* Legacy pay: --receiver_identity <p> --receiver <r> --amount <a> *)

\* parseFloat(v) of a value the argument parser delivers: its argument is
\* converted to a string first, and a number's string parses to that number.
parseFloatValue(v) ==
    IF v.t = "number" THEN v.n
    ELSE IF v.t = "string" THEN parseFloat(v.s)
    ELSE NaN

\* allowedIdentities.includes(args.receiver_identity.toLowerCase()); calling
\* toLowerCase on a value that is not a string is an uncaught TypeError.
IdentityCheck(identity) ==
    IF identity.t # "string" THEN "TypeError"
    ELSE IF toLowerCase(identity.s) \notin allowedIdentities THEN "PlatformNotAllowed"
    ELSE "none"

\* const amount = parseFloat(args.amount); if (isNaN(amount)) exit
PayAmount(parsed) ==
    IF isNaN(parsed)
    THEN /\ Exit(1, "InvalidAmount")
         /\ UNCHANGED <<receiverIdentity, receiver, amount>>
    ELSE /\ receiverIdentity' = args.receiver_identity
         /\ receiver' = args.receiver
         /\ amount' = Num(parsed)
         /\ Goto("network")

PayChecked(check) ==
    IF check # "none"
    THEN /\ Exit(1, check)
         /\ UNCHANGED <<receiverIdentity, receiver, amount>>
    ELSE PayAmount(parseFloatValue(args.amount))

PayParseArgs ==
    /\ cmd = "pay"
    /\ pc = "start"
    /\ IF ~Truthy(args.receiver_identity) \/ ~Truthy(args.receiver)
          \/ ~Truthy(args.amount)
       THEN /\ Exit(1, "Usage")
            /\ UNCHANGED <<receiverIdentity, receiver, amount>>
       ELSE PayChecked(IdentityCheck(args.receiver_identity))
    /\ UNCHANGED <<given, receivers, groups, extracted, typed, useSolana, signers, netlog, posts>>
    /\ UNCHANGED <<avars, fvars, dvars>>

PaySelectNetwork ==
    /\ cmd = "pay"
    /\ pc = "network"
    /\ SelectNetworkStep("signer")
    /\ UNCHANGED <<given, receiverIdentity, receiver, amount, receivers, groups, extracted, typed,
                   signers, netlog, posts>>
    /\ UNCHANGED <<avars, fvars, dvars>>

PayCreateSigner ==
    /\ cmd = "pay"
    /\ pc = "signer"
    /\ CreateSignerStep("post")
    /\ UNCHANGED <<given, receiverIdentity, receiver, amount, receivers, groups, extracted, typed,
                   useSolana, netlog, posts>>
    /\ UNCHANGED <<avars, fvars, dvars>>

PayPost ==
    /\ cmd = "pay"
    /\ pc = "post"
    /\ PostStep("pay", receiverIdentity, Body(amount, receiver, <<>>))
    /\ UNCHANGED <<given, receiverIdentity, receiver, amount, receivers, groups, extracted, typed,
                   useSolana, signers>>
    /\ UNCHANGED <<avars, fvars, dvars>>

----------------------------------------------------------------------------
(* Legacy batch pay: --receiver_identity <p> --receivers <json> *)

\* receivers = JSON.parse(args.receivers); if (!Array.isArray(receivers)) throw.
\* doc is what JSON.parse yields for the string given: a value that is not a
\* string is converted to one and never parses to an array.
BatchPayChecked(check) ==
    IF check # "none"
    THEN /\ Exit(1, check)
         /\ UNCHANGED <<receiverIdentity, receivers>>
    ELSE IF args.receivers.t # "string" \/ ~doc.avail \/ ~doc.isArray
    THEN /\ Exit(1, "InvalidReceivers")
         /\ UNCHANGED <<receiverIdentity, receivers>>
    ELSE /\ receiverIdentity' = args.receiver_identity
         /\ receivers' = doc.payments
         /\ Goto("network")

BatchPayParseArgs ==
    /\ cmd = "batch-pay"
    /\ pc = "start"
    /\ IF ~Truthy(args.receiver_identity) \/ ~Truthy(args.receivers)
       THEN /\ Exit(1, "Usage")
            /\ UNCHANGED <<receiverIdentity, receivers>>
       ELSE BatchPayChecked(IdentityCheck(args.receiver_identity))
    /\ UNCHANGED <<given, receiver, amount, groups, extracted, typed, useSolana, signers, netlog, posts>>
    /\ UNCHANGED <<avars, fvars, dvars>>

BatchPaySelectNetwork ==
    /\ cmd = "batch-pay"
    /\ pc = "network"
    /\ SelectNetworkStep("signer")
    /\ UNCHANGED <<given, receiverIdentity, receiver, amount, receivers, groups, extracted, typed,
                   signers, netlog, posts>>
    /\ UNCHANGED <<avars, fvars, dvars>>

BatchPayCreateSigner ==
    /\ cmd = "batch-pay"
    /\ pc = "signer"
    /\ CreateSignerStep("post")
    /\ UNCHANGED <<given, receiverIdentity, receiver, amount, receivers, groups, extracted, typed,
                   useSolana, netlog, posts>>
    /\ UNCHANGED <<avars, fvars, dvars>>

BatchPayPost ==
    /\ cmd = "batch-pay"
    /\ pc = "post"
    /\ PostStep("batch-pay", receiverIdentity, Body(Undefined, Undefined, receivers))
    /\ UNCHANGED <<given, receiverIdentity, receiver, amount, receivers, groups, extracted, typed,
                   useSolana, signers>>
    /\ UNCHANGED <<avars, fvars, dvars>>

----------------------------------------------------------------------------
(* Campaign creation: snackmoney sponsor-a-cookie <json-input> *)

\* The rule of a required string field: the violation, or <<>>.
\* The bounds taken as exclusive.
StringFieldExclusive(v, name, min, max) ==
    IF ~Truthy(v) THEN <<name>>
    ELSE IF v.t # "string" THEN <<name>>
    ELSE IF Len(v.s) <= min THEN <<name>>
    ELSE IF Len(v.s) >= max THEN <<name>>
    ELSE <<>>

StringField(v, name, min, max) ==
    IF ~Truthy(v) THEN <<name>>
    ELSE IF v.t # "string" THEN <<name>>
    ELSE IF Len(v.s) < min THEN <<name>>
    ELSE IF Len(v.s) > max THEN <<name>>
    ELSE <<>>

\* new URL(s) does not throw: s begins with a scheme, and an http(s) URL
\* names a host.
IsURLWithScheme(s, colon) ==
    /\ colon > 1
    /\ colon <= Len(s)
    /\ s[1] \in Letters
    /\ AllIn(SubSeq(s, 1, colon - 1), AlNum \cup {"+", "-", "."})
    /\ toLowerCase(SubSeq(s, 1, colon - 1)) \in {<<"h", "t", "t", "p">>,
                                                 <<"h", "t", "t", "p", "s">>}
          => RunEnd(s, colon + 1, {"/"}) <= Len(s)

\* The URL parser first strips leading and trailing spaces.
IsURL(s) == IsURLWithScheme(trim(s), IndexFrom(trim(s), 1, ":"))

\* The first violation only.
FirstOf(violations, others) == IF violations # <<>> THEN violations ELSE others

\* Validation that stops at the first violation.
validateCampaignDataFailFast(data) ==
    FirstOf(IF data.platform.t = "string" /\ data.platform.s \in {X, FARCASTER}
            THEN <<>> ELSE <<"platform">>,
    FirstOf(StringField(data.name, "name", 3, 100),
    FirstOf(StringField(data.description, "description", 10, 500),
    FirstOf(IF data.totalCookies.t = "number" /\ data.totalCookies.n.k = "fin"
               /\ data.totalCookies.n.e = 0 /\ data.totalCookies.n.m \in 3..10
            THEN <<>> ELSE <<"totalCookies">>,
    FirstOf(IF Truthy(data.sponsor) THEN <<>> ELSE <<"sponsor">>,
    FirstOf(StringField(data.sponsorName, "sponsor.name", 1, 100),
    FirstOf(StringField(data.sponsorHandle, "sponsor.handle", 1, 50),
            IF data.sponsorUrl.t \in {"undefined", "null"} THEN <<>>
            ELSE IF data.sponsorUrl.t = "string" /\ IsURL(data.sponsorUrl.s) THEN <<>>
            ELSE <<"sponsor.url">>)))))))

\* A campaign document is [avail, platform, name, description, totalCookies,
\* sponsor, sponsorName, sponsorHandle, sponsorUrl], each field the JavaScript
\* value the raw object holds.  The result is the list of violated fields.
validateCampaignData(data) ==
    (IF ~Truthy(data.platform) THEN <<"platform">>
     ELSE IF ~(data.platform.t = "string" /\ data.platform.s \in {X, FARCASTER})
     THEN <<"platform">> ELSE <<>>)
    \o StringField(data.name, "name", 3, 100)
    \o StringField(data.description, "description", 10, 500)
    \o (IF data.totalCookies.t \in {"undefined", "null"} THEN <<"totalCookies">>
        ELSE IF data.totalCookies.t # "number" THEN <<"totalCookies">>
        ELSE IF ~(data.totalCookies.n.k = "fin" /\ data.totalCookies.n.e = 0)
        THEN <<"totalCookies">>
        ELSE IF data.totalCookies.n.m < 3 THEN <<"totalCookies">>
        ELSE IF data.totalCookies.n.m > 10 THEN <<"totalCookies">>
        ELSE <<>>)
    \o (IF ~Truthy(data.sponsor) THEN <<"sponsor">>
        ELSE StringField(data.sponsorName, "sponsor.name", 1, 100)
             \o StringField(data.sponsorHandle, "sponsor.handle", 1, 50)
             \o (IF data.sponsorUrl.t \in {"undefined", "null"} THEN <<>>
                 ELSE IF data.sponsorUrl.t # "string" THEN <<"sponsor.url">>
                 ELSE IF ~IsURL(data.sponsorUrl.s) THEN <<"sponsor.url">>
                 ELSE <<>>))

\* if (errors.length > 0) throw new Error(...); return data as CampaignData
CampaignDataOf(data, errors) ==
    IF errors # <<>> THEN Throw("ValidationFailed") ELSE Return(data)

\* The interpretation parseJsonInput selects for its input.
JsonInputKind(input) ==
    IF startsWith(trim(input), <<"{">>) THEN "json"
    ELSE IF startsWith(input, HTTP) \/ startsWith(input, HTTPS) THEN "url"
    ELSE "file"

\* getCookieValue
cookieValue == 1

\* parseJsonInput on a string input of a given kind, validateCampaignData,
\* then totalCost = campaignData.totalCookies * cookieValue.
CampaignLoad(kind) ==
    /\ netlog' = IF kind = "url" THEN Append(netlog, "fetch") ELSE netlog
    /\ IF ~doc.avail
       THEN /\ Exit(1, "LoadFailed")
            /\ UNCHANGED <<receiverIdentity, amount>>
       ELSE IF validateCampaignData(doc) # <<>>
       THEN /\ Exit(1, "ValidationFailed")
            /\ UNCHANGED <<receiverIdentity, amount>>
       ELSE /\ receiverIdentity' = doc.platform
            /\ amount' = Num(Fin(doc.totalCookies.n.m * cookieValue, 0))
            /\ Goto("network")

CampaignParseInput ==
    /\ cmd = "campaign"
    /\ pc = "start"
    /\ IF Len(args.positional) < 1
       THEN /\ Exit(1, "Usage")
            /\ UNCHANGED <<receiverIdentity, amount, netlog>>
       ELSE IF args.positional[1].t # "string"
       THEN /\ Exit(1, "TypeError")
            /\ UNCHANGED <<receiverIdentity, amount, netlog>>
       ELSE CampaignLoad(JsonInputKind(args.positional[1].s))
    /\ UNCHANGED <<given, receiver, receivers, groups, extracted, typed, useSolana, signers, posts>>
    /\ UNCHANGED <<avars, fvars, dvars>>

CampaignSelectNetwork ==
    /\ cmd = "campaign"
    /\ pc = "network"
    /\ SelectNetworkStep("confirm")
    /\ UNCHANGED <<given, receiverIdentity, receiver, amount, receivers, groups, extracted, typed,
                   signers, netlog, posts>>
    /\ UNCHANGED <<avars, fvars, dvars>>

\* The answers a user may type.
Answers == {<<"y">>, <<"Y", "E", "S">>, <<"n">>, <<"y", "e">>, <<>>}

\* A faulty confirmation: whatever is typed counts as consent.
CampaignConfirmAnyAnswer ==
    /\ cmd = "campaign"
    /\ pc = "confirm"
    /\ \E answer \in Answers :
           /\ typed' = Append(typed, answer)
           /\ IF answer # <<>> THEN Goto("signer") ELSE Exit(0, "Cancelled")
    /\ UNCHANGED <<given, receiverIdentity, receiver, amount, receivers, groups, extracted,
                   useSolana, signers, netlog, posts>>
    /\ UNCHANGED <<avars, fvars, dvars>>

\* promptConfirmation, then if (!confirmed) process.exit(0)
CampaignConfirm ==
    /\ cmd = "campaign"
    /\ pc = "confirm"
    /\ \E answer \in Answers :
           /\ typed' = Append(typed, answer)
           /\ IF toLowerCase(answer) \in {<<"y">>, <<"y", "e", "s">>}
              THEN Goto("signer")
              ELSE Exit(0, "Cancelled")
    /\ UNCHANGED <<given, receiverIdentity, receiver, amount, receivers, groups, extracted,
                   useSolana, signers, netlog, posts>>
    /\ UNCHANGED <<avars, fvars, dvars>>

CampaignCreateSigner ==
    /\ cmd = "campaign"
    /\ pc = "signer"
    /\ CreateSignerStep("post")
    /\ UNCHANGED <<given, receiverIdentity, receiver, amount, receivers, groups, extracted, typed,
                   useSolana, netlog, posts>>
    /\ UNCHANGED <<avars, fvars, dvars>>

CampaignPost ==
    /\ cmd = "campaign"
    /\ pc = "post"
    /\ PostStep("create", receiverIdentity,
                [name |-> doc.name, description |-> doc.description,
                 totalCookies |-> doc.totalCookies])
    /\ UNCHANGED <<given, receiverIdentity, receiver, amount, receivers, groups, extracted, typed,
                   useSolana, signers>>
    /\ UNCHANGED <<avars, fvars, dvars>>

----------------------------------------------------------------------------
(* ai-agent: the fallback parser's three regular expressions *)

Lit(s) == [k |-> "lit", s |-> s]

Ws == [k |-> "ws", s |-> <<>>]

\* send\s+(\d+\.?\d*)\s+usdc\s+to\s+@?(\w+)\s+on\s+(x|farcaster|web|email|github)
SendPattern ==
    << Lit(<<"s", "e", "n", "d">>), Ws, [k |-> "num", s |-> <<>>], Ws,
       Lit(<<"u", "s", "d", "c">>), Ws, Lit(<<"t", "o">>), Ws,
       [k |-> "opt", s |-> <<"@">>], [k |-> "word", s |-> <<>>], Ws,
       Lit(<<"o", "n">>), Ws, [k |-> "plat", s |-> <<>>] >>

\* pay\s+@?(\w+)\s+(\d+\.?\d*)\s+usdc\s+on\s+(x|farcaster|web|email|github)
PayPattern ==
    << Lit(<<"p", "a", "y">>), Ws, [k |-> "opt", s |-> <<"@">>],
       [k |-> "word", s |-> <<>>], Ws, [k |-> "num", s |-> <<>>], Ws,
       Lit(<<"u", "s", "d", "c">>), Ws, Lit(<<"o", "n">>), Ws,
       [k |-> "plat", s |-> <<>>] >>

\* @?(\w+)\s+on\s+(x|farcaster|web|email|github)\s+(\d+\.?\d*)\s+usdc
AtPattern ==
    << [k |-> "opt", s |-> <<"@">>], [k |-> "word", s |-> <<>>], Ws,
       Lit(<<"o", "n">>), Ws, [k |-> "plat", s |-> <<>>], Ws,
       [k |-> "num", s |-> <<>>], Ws, Lit(<<"u", "s", "d", "c">>) >>

\* Where a run of one or more characters of S that starts at i ends; 0 if
\* there is none.
RunOrFail(i, j) == IF j > i THEN j ELSE 0

\* Where the element e matched at index i of s ends (the index after it); 0
\* when it does not match.  low is s in lower case: the expressions are
\* case-insensitive.
ElemEnd(s, low, i, e) ==
    CASE e.k = "lit"  -> IF StartsWithAt(low, i, e.s) THEN i + Len(e.s) ELSE 0
      [] e.k = "opt"  -> IF StartsWithAt(s, i, e.s) THEN i + Len(e.s) ELSE i
      [] e.k = "ws"   -> RunOrFail(i, RunEnd(s, i, WhiteSpace))
      [] e.k = "word" -> RunOrFail(i, RunEnd(s, i, AlNum \cup {"_"}))
      [] e.k = "num"  -> IF RunEnd(s, i, Digits) = i THEN 0
                         ELSE FractionEnd(s, RunEnd(s, i, Digits))
      [] e.k = "plat" ->
           IF StartsWithAt(low, i, X) THEN i + Len(X)
           ELSE IF StartsWithAt(low, i, FARCASTER) THEN i + Len(FARCASTER)
           ELSE IF StartsWithAt(low, i, WEB) THEN i + Len(WEB)
           ELSE IF StartsWithAt(low, i, EMAIL) THEN i + Len(EMAIL)
           ELSE IF StartsWithAt(low, i, GITHUB) THEN i + Len(GITHUB)
           ELSE 0

NoMatch == [ok |-> FALSE, end |-> 0, caps |-> <<>>]

\* The groups of a match, extended by the text of a capturing element.
Captured(e, text, rest) ==
    IF ~rest.ok THEN rest
    ELSE IF e.k \in {"num", "word", "plat"}
    THEN [rest EXCEPT !.caps = <<text>> \o rest.caps]
    ELSE rest

\* The match of pat[k..] at index i of s: [ok, end, caps].
RECURSIVE MatchFrom(_, _, _, _, _)
MatchElem(s, low, i, pat, k, j) ==
    IF j = 0 THEN NoMatch
    ELSE Captured(pat[k], SubSeq(s, i, j - 1), MatchFrom(s, low, j, pat, k + 1))

MatchFrom(s, low, i, pat, k) ==
    IF k > Len(pat) THEN [ok |-> TRUE, end |-> i, caps |-> <<>>]
    ELSE MatchElem(s, low, i, pat, k, ElemEnd(s, low, i, pat[k]))

\* pattern.exec from lastIndex p: the leftmost match.
RECURSIVE ExecFrom(_, _, _, _)
ExecFrom(s, low, pat, p) ==
    IF p > Len(s) THEN NoMatch
    ELSE IF MatchFrom(s, low, p, pat, 1).ok THEN MatchFrom(s, low, p, pat, 1)
    ELSE ExecFrom(s, low, pat, p + 1)

\* while ((match = pattern.exec(prompt)) !== null): the groups of every match
RECURSIVE ExecAll(_, _, _, _)
ExecNext(s, low, pat, match) ==
    IF ~match.ok THEN <<>>
    ELSE <<match.caps>> \o ExecAll(s, low, pat, match.end)

ExecAll(s, low, pat, p) == ExecNext(s, low, pat, ExecFrom(s, low, pat, p))

\* The platform kept as typed.
InstructionAsTyped(r, a, p) ==
    [receiver |-> Str(r), amount |-> Num(parseFloat(a)), platform |-> Str(p)]

\* instructions.push({receiver, amount: parseFloat(...), platform: ...toLowerCase()})
Instruction(r, a, p) ==
    [receiver |-> Str(r), amount |-> Num(parseFloat(a)), platform |-> Str(toLowerCase(p))]

Instructions(matches, r, a, p) ==
    [i \in 1..Len(matches) |-> Instruction(matches[i][r], matches[i][a], matches[i][p])]

FallbackOf(s, low) ==
    Instructions(ExecAll(s, low, SendPattern, 1), 2, 1, 3)
    \o Instructions(ExecAll(s, low, PayPattern, 1), 1, 2, 3)
    \o Instructions(ExecAll(s, low, AtPattern, 1), 1, 3, 2)

\* A prompt that is not a string is converted to one that no expression
\* matches.
fallbackParser(prompt) ==
    IF prompt.t # "string" THEN <<>> ELSE FallbackOf(prompt.s, toLowerCase(prompt.s))

----------------------------------------------------------------------------
(* ai-agent: yarn ai-agent --prompt "<request>" *)

\* byPlatform: the instructions of each platform, platforms in the order of
\* their first instruction.
RECURSIVE GroupFrom(_, _)
GroupFrom(instructions, i) ==
    IF i > Len(instructions) THEN <<>>
    ELSE IF \E j \in 1..(i - 1) : instructions[j].platform = instructions[i].platform
    THEN GroupFrom(instructions, i + 1)
    ELSE <<[platform |-> instructions[i].platform,
            members |-> SelectSeq(instructions,
                                  LAMBDA x : x.platform = instructions[i].platform)]>>
         \o GroupFrom(instructions, i + 1)

\* What a language model may answer: no answer (the call fails), a text with
\* no JSON array in it, a text whose array is not JSON, or an array of
\* instructions.
LLMInstructions ==
    { <<>>,
      <<[receiver |-> Str(<<"a">>), amount |-> Num(Fin(1, 0)), platform |-> Str(X)]>>,
      <<[receiver |-> Str(<<"a">>), amount |-> Num(Fin(1, 0)), platform |-> Str(X)],
        [receiver |-> Str(<<"b">>), amount |-> Num(Fin(5, 1)), platform |-> Str(X)]>>,
      <<[receiver |-> Str(<<"a">>), amount |-> Num(Fin(1, 0)), platform |-> Str(X)],
        [receiver |-> Str(<<"b">>), amount |-> Num(Fin(2, 0)), platform |-> Str(FARCASTER)]>>,
      <<[receiver |-> Str(<<"a">>), amount |-> Num(Fin(-1, 0)), platform |-> Str(X)]>>,
      <<[receiver |-> Str(<<"a">>), amount |-> Num(Fin(1, 0)), platform |-> Str(GITHUB),
         description |-> Str(<<"t", "y">>)]>>,
      <<[receiver |-> Str(<<"a">>), amount |-> Num(Fin(1, 0)), platform |-> Str(X)],
        [receiver |-> Str(<<"b">>), amount |-> Num(Fin(2, 0)), platform |-> Str(FARCASTER),
         description |-> Str(<<"t", "y">>)],
        [receiver |-> Str(<<"c">>), amount |-> Num(Fin(5, -1)), platform |-> Str(X)]>> }

LLMAnswers ==
    { [kind |-> "failed", instructions |-> <<>>, text |-> <<>>],
      [kind |-> "malformed", instructions |-> <<>>, text |-> <<>>],
      [kind |-> "text", instructions |-> <<>>,
       text |-> <<"p", "a", "y", " ", "b", "o", "b", " ", "2", " ", "u", "s", "d", "c",
                  " ", "o", "n", " ", "x">>],
      [kind |-> "text", instructions |-> <<>>, text |-> <<"n", "o">>] }
    \cup { [kind |-> "array", instructions |-> is, text |-> <<>>] : is \in LLMInstructions }

\* A faulty check: nothing understood ends the process with status 0.
AgentParsedExitZero(instructions) ==
    IF Len(instructions) = 0
    THEN /\ Exit(0, "NoInstructions")
         /\ UNCHANGED <<groups, extracted>>
    ELSE /\ groups' = GroupFrom(instructions, 1)
         /\ extracted' = instructions
         /\ Goto("signer")

\* if (instructions.length === 0) exit(1); otherwise group by platform.
AgentParsed(instructions) ==
    IF Len(instructions) = 0
    THEN /\ Exit(1, "NoInstructions")
         /\ UNCHANGED <<groups, extracted>>
    ELSE /\ groups' = GroupFrom(instructions, 1)
         /\ extracted' = instructions
         /\ Goto("signer")

\* parseWithOpenAI / parseWithClaude, then parseAIResponse
AgentAsked(answer) ==
    IF answer.kind = "failed"
    THEN /\ Exit(1, "LLMFailed")
         /\ UNCHANGED <<groups, extracted>>
    ELSE IF answer.kind = "malformed"
    THEN /\ Exit(1, "LLMMalformed")
         /\ UNCHANGED <<groups, extracted>>
    ELSE IF answer.kind = "text" THEN AgentParsed(fallbackParser(Str(answer.text)))
    ELSE AgentParsed(answer.instructions)

\* The network-selection block runs first, at the top of the script.
AgentSelectNetwork ==
    /\ cmd = "ai-agent"
    /\ pc = "start"
    /\ SelectNetworkStep("prompt")
    /\ UNCHANGED <<given, receiverIdentity, receiver, amount, receivers, groups, extracted, typed,
                   signers, netlog, posts>>
    /\ UNCHANGED <<avars, fvars, dvars>>

\* if (!args.prompt) { usage; process.exit(1) }
AgentCheckPrompt ==
    /\ cmd = "ai-agent"
    /\ pc = "prompt"
    /\ IF Truthy(args.prompt) THEN Goto("parse") ELSE Exit(1, "Usage")
    /\ UNCHANGED <<given, receiverIdentity, receiver, amount, receivers, groups, extracted, typed,
                   useSolana, signers, netlog, posts>>
    /\ UNCHANGED <<avars, fvars, dvars>>

\* parsePaymentRequest: OpenAI when its key is set, else Claude when its key
\* is set, else the fallback parser.
AgentParse ==
    /\ cmd = "ai-agent"
    /\ pc = "parse"
    /\ IF Truthy(env.OPENAI_API_KEY) \/ Truthy(env.ANTHROPIC_API_KEY)
       THEN /\ netlog' = Append(netlog, "llm")
            /\ \E answer \in LLMAnswers : AgentAsked(answer)
       ELSE /\ UNCHANGED netlog
            /\ AgentParsed(fallbackParser(args.prompt))
    /\ UNCHANGED <<given, receiverIdentity, receiver, amount, receivers, typed,
                   useSolana, signers, posts>>
    /\ UNCHANGED <<avars, fvars, dvars>>

\* executePayment / executeBatchPayment create a signer for each group.
AgentCreateSigner ==
    /\ cmd = "ai-agent"
    /\ pc = "signer"
    /\ CreateSignerStep("post")
    /\ UNCHANGED <<given, receiverIdentity, receiver, amount, receivers, groups, extracted, typed,
                   useSolana, netlog, posts>>
    /\ UNCHANGED <<avars, fvars, dvars>>

\* description: instruction.description || `Payment via AI Agent (...)`
DEFAULT_DESCRIPTION == <<"P", "a", "y", "m", "e", "n", "t", " ", "v", "i", "a", " ",
                         "A", "I", " ", "A", "g", "e", "n", "t">>

DescriptionOf(instruction) ==
    IF "description" \in DOMAIN instruction /\ Truthy(instruction.description)
    THEN instruction.description
    ELSE Str(DEFAULT_DESCRIPTION)

\* The body of executePayment's request.
PayBody(instruction) ==
    [ amount |-> instruction.amount, receiver |-> instruction.receiver,
      receivers |-> <<>>, description |-> DescriptionOf(instruction) ]

\* A faulty request: whatever the size of the group, its first instruction
\* alone is paid.
AgentRequestFirstOnly(group, response) ==
    Request("pay", group.platform, PayBody(group.members[1]), response)

\* The request of one group.
AgentRequest(group, response) ==
    IF Len(group.members) = 1
    THEN Request("pay", group.platform, PayBody(group.members[1]), response)
    ELSE Request("batch-pay", group.platform,
                 Body(Undefined, Undefined,
                      [i \in 1..Len(group.members) |->
                          [receiver |-> group.members[i].receiver,
                           amount |-> group.members[i].amount]]),
                 response)

\* A faulty loop: a failed request is not rethrown, and the next group is paid.
AgentPostKeepGoing ==
    /\ cmd = "ai-agent"
    /\ pc = "post"
    /\ \E response \in {"ok", "failed"} :
           /\ netlog' = Append(netlog, "post")
           /\ posts' = Append(posts, AgentRequest(groups[1], response))
           /\ groups' = Tail(groups)
           /\ IF Len(groups) = 1
              THEN Exit(IF response = "ok" THEN 0 ELSE 1,
                        IF response = "ok" THEN "none" ELSE "RequestFailed")
              ELSE Goto("signer")
    /\ UNCHANGED <<given, receiverIdentity, receiver, amount, receivers,
                   extracted, typed, useSolana, signers>>
    /\ UNCHANGED <<avars, fvars, dvars>>

\* The request of the first group still to be paid: a failure is rethrown to
\* main's catch; after the last group the script ends.
AgentPost ==
    /\ cmd = "ai-agent"
    /\ pc = "post"
    /\ \E response \in {"ok", "failed"} :
           /\ netlog' = Append(netlog, "post")
           /\ posts' = Append(posts, AgentRequest(groups[1], response))
           /\ IF response = "failed"
              THEN /\ Exit(1, "RequestFailed")
                   /\ UNCHANGED groups
              ELSE /\ groups' = Tail(groups)
                   /\ IF Len(groups) = 1 THEN Exit(0, "none") ELSE Goto("signer")
    /\ UNCHANGED <<given, receiverIdentity, receiver, amount, receivers,
                   extracted, typed, useSolana, signers>>
    /\ UNCHANGED <<avars, fvars, dvars>>

----------------------------------------------------------------------------
(* The invocations considered: [cmd, env, argv, doc] *)

KeyValues == {Undefined, Str(<<>>), Str(<<"k">>)}

LOCAL_URL == <<"h", "t", "t", "p", ":", "/", "/", "l", "o", "c", "a", "l", "h",
               "o", "s", "t", ":", "3", "0", "0", "0">>

\* process.env with the two private keys, the server URL and the model keys
Env(evm, svm, url, openai, anthropic) ==
    [ EVM_PRIVATE_KEY |-> evm, SVM_PRIVATE_KEY |-> svm,
      RESOURCE_SERVER_URL |-> url, OPENAI_API_KEY |-> openai,
      ANTHROPIC_API_KEY |-> anthropic ]

\* Every combination of the two private keys, with and without a local server
Envs ==
    { Env(evm, svm, url, Undefined, Undefined) :
          evm \in KeyValues, svm \in KeyValues, url \in {Undefined, Str(LOCAL_URL)} }

\* One private key, or none
FewEnvs ==
    { Env(Str(<<"k">>), Undefined, Undefined, Undefined, Undefined),
      Env(Undefined, Str(<<"k">>), Str(LOCAL_URL), Undefined, Undefined),
      Env(Undefined, Undefined, Undefined, Undefined, Undefined) }

\* The private keys and the model keys of an ai-agent run
AgentEnvs ==
    { Env(evm, svm, Undefined, openai, anthropic) :
          evm \in {Undefined, Str(<<"k">>)}, svm \in {Undefined, Str(<<"k">>)},
          openai \in {Undefined, Str(<<"k">>)}, anthropic \in {Undefined, Str(<<"k">>)} }

\* The --network options considered
NetworkOptions ==
    { Absent, Bare, Given(<<>>), Given(<<"0">>), Given(<<"5">>),
      Given(BASE), Given(<<"B", "A", "S", "E">>),
      Given(SOLANA), Given(<<"S", "o", "l", "a", "n", "a">>),
      Given(<<"e", "t", "h">>) }

\* A command line: positional arguments, --network, and the options of the
\* legacy commands and of ai-agent.
Line(positional, network, identity, to, amt, list, prompt) ==
    [ positional |-> positional, network |-> network,
      receiver_identity |-> identity, receiver |-> to, amount |-> amt,
      receivers |-> list, prompt |-> prompt ]

NoDoc == [avail |-> FALSE]

Invocation(c, e, line, d) == [cmd |-> c, env |-> e, argv |-> line, doc |-> d]

\* send: the <platform/user> arguments considered
SendTargets ==
    { <<"x", "/", "a", "l", "i", "c", "e">>,
      <<"T", "w", "i", "t", "t", "e", "r", ".", "c", "o", "m", "/", "a", "_", "1">>,
      <<"n", "o", "p", "e", "/", "a", "l", "i", "c", "e">>,
      <<"x", "/", "a", "-", "b">>, <<"x", "a", "l", "i", "c", "e">>, <<"5">>,
      <<"c", "o", "n", "s", "t", "r", "u", "c", "t", "o", "r", "/", "a", "l">> }

\* send: the <amount> arguments considered
SendAmounts ==
    { <<"5", CENT>>, <<"$", "1">>, <<"$", "1", "0">>, <<"$", "0", ".", "5">>,
      <<"$", ".", "5">>, <<"0", ".", "0", "1">>, <<"0", ".", "5">>,
      <<"1", "a", "b", "c">>, <<"a", "b", "c">>, <<"$", "5", CENT>>, <<>>,
      <<"$", "0">>, <<"$", "1", ".", "2", "5">>,
      <<"5", "0", NOT_SIGN, CENT>>, <<"2", "5">>,
      <<"$", "-", "0", ".", "5">> }

\* send: every target with every amount under few environments, and one good
\* command line with every --network option under every environment.
SendInvocations ==
    { Invocation("send", e, Line(p, Absent, Absent, Absent, Absent, Absent, Absent), NoDoc) :
          e \in FewEnvs,
          p \in {<<t, a>> : t \in SendTargets, a \in SendAmounts}
                \cup {<<t>> : t \in SendTargets} \cup {<<>>} }
    \cup
    { Invocation("send", e,
                 Line(<<<<"x", "/", "a", "l", "i", "c", "e">>, <<"5", CENT>>>>, n,
                      Absent, Absent, Absent, Absent, Absent), NoDoc) :
          e \in Envs, n \in NetworkOptions }

\* batch-send: the comma-separated inputs considered
BatchInputs ==
    { <<"x", "/", "a", ":", "5", CENT, ",", "b", ":", "$", "1">>,
      <<"x", "/", "a", ":", "5", CENT, ",", "b", "-", "b", ":", "1">>,
      <<"x", "/", "a">>, <<"n", "o", "p", "e", "/", "a", ":", "1">>,
      <<"x", "a", ":", "1">>, <<"x", "/", "a", ":", "a", "b", "c">>,
      <<"c", "o", "n", "s", "t", "r", "u", "c", "t", "o", "r", "/", "a", ":", "1">>,
      <<"0", ".", "5">>,
      <<"x", "/", "a", ":", "-", "5">> }

\* A {platform, payments} document
BatchDoc(platform, isArray, payments) ==
    [avail |-> TRUE, platform |-> platform, isArray |-> isArray, payments |-> payments]

\* The documents a URL, a file or an inline JSON string may hold
BatchDocs ==
    { NoDoc,
      BatchDoc(Str(X), TRUE,
               <<[receiver |-> Str(<<"a">>), amount |-> Str(<<"5", CENT>>)],
                 [receiver |-> Str(<<"b">>), amount |-> Num(Fin(5, 1))]>>),
      BatchDoc(Str(X), TRUE,
               <<[receiver |-> Str(<<"a">>), amount |-> Str(<<"5", CENT>>)],
                 [receiver |-> Str(<<"b", "-", "b">>), amount |-> Num(Fin(5, 1))]>>),
      BatchDoc(Str(X), TRUE,
               <<[receiver |-> Str(<<"a">>), amount |-> Str(<<"a", "b", "c">>)]>>),
      BatchDoc(Str(X), TRUE, <<[receiver |-> Undefined, amount |-> Num(Fin(1, 0))]>>),
      BatchDoc(Str(X), TRUE, <<[receiver |-> Str(<<"a">>), amount |-> Undefined]>>),
      BatchDoc(Str(<<"n", "o", "p", "e">>), TRUE,
               <<[receiver |-> Str(<<"a">>), amount |-> Num(Fin(1, 0))]>>),
      BatchDoc(Undefined, TRUE, <<[receiver |-> Str(<<"a">>), amount |-> Num(Fin(1, 0))]>>),
      BatchDoc(Str(X), FALSE, <<>>),
      BatchDoc(Str(X), TRUE, <<>>),
      BatchDoc(Str(X), TRUE,
               <<[receiver |-> Str(<<"a">>), amount |-> Num(Fin(1, 0))],
                 [receiver |-> Str(<<"b">>), amount |-> Num(Fin(-5, 0))]>>) }

\* batch-send: the inputs that name a JSON document
BatchSources ==
    { <<"h", "t", "t", "p", "s", ":", "/", "/", "h", "/", "p">>,
      <<"p", ".", "j", "s", "o", "n">>,
      <<"{">> }

\* batch-send: every comma-separated input and every document of every kind
\* of source under few environments, and one good command line with every
\* --network option under every environment.
BatchInvocations ==
    { Invocation("batch-send", e,
                 Line(p, Absent, Absent, Absent, Absent, Absent, Absent), NoDoc) :
          e \in FewEnvs, p \in {<<i>> : i \in BatchInputs} \cup {<<>>} }
    \cup
    { Invocation("batch-send", e,
                 Line(<<s>>, Absent, Absent, Absent, Absent, Absent, Absent), d) :
          e \in FewEnvs, s \in BatchSources, d \in BatchDocs }
    \cup
    { Invocation("batch-send", e,
                 Line(<<<<"x", "/", "a", ":", "5", CENT, ",", "b", ":", "$", "1">>>>, n,
                      Absent, Absent, Absent, Absent, Absent), NoDoc) :
          e \in Envs, n \in NetworkOptions }

\* pay: the --receiver_identity and --amount options considered, with every
\* --network option under every environment for one good command line.
PayInvocations ==
    { Invocation("pay", e, Line(<<>>, Absent, i, r, a, Absent, Absent), NoDoc) :
          e \in FewEnvs,
          i \in {Absent, Given(X), Given(<<"X">>), Given(<<"n", "o">>), Given(<<"5">>)},
          r \in {Absent, Given(<<"a", "l">>)},
          a \in {Absent, Bare, Given(<<"0", ".", "0", "1">>), Given(<<"0">>),
                 Given(<<"1", "a", "b", "c">>), Given(<<"a", "b", "c">>),
                 Given(<<"5", CENT>>), Given(INFINITY)} }
    \cup
    { Invocation("pay", e,
                 Line(<<>>, n, Given(X), Given(<<"a", "l">>), Given(<<"0", ".", "0", "1">>),
                      Absent, Absent), NoDoc) :
          e \in Envs, n \in NetworkOptions }

\* batch-pay: the --receivers options considered, doc being what JSON.parse
\* yields for the option's string.
BatchPayInvocations ==
    { Invocation("batch-pay", e, Line(<<>>, Absent, i, Absent, Absent, l, Absent), d) :
          e \in FewEnvs,
          i \in {Absent, Given(X), Given(<<"n", "o">>)},
          l \in {Absent, Given(<<"[">>), Given(<<"5">>)},
          d \in {NoDoc, BatchDoc(Undefined, FALSE, <<>>),
                 BatchDoc(Undefined, TRUE, <<>>),
                 BatchDoc(Undefined, TRUE,
                          <<[receiver |-> Str(<<"a">>), amount |-> Num(Fin(1, 0))]>>)} }
    \cup
    { Invocation("batch-pay", e,
                 Line(<<>>, n, Given(X), Absent, Absent, Given(<<"[">>), Absent),
                 BatchDoc(Undefined, TRUE,
                          <<[receiver |-> Str(<<"a">>), amount |-> Num(Fin(1, 0))]>>)) :
          e \in Envs, n \in NetworkOptions }

\* A campaign document with a sponsor
CampaignDoc(platform, name, description, totalCookies, url) ==
    [ avail |-> TRUE, platform |-> platform, name |-> name,
      description |-> description, totalCookies |-> totalCookies,
      sponsor |-> Inherited, sponsorName |-> Str(<<"s">>),
      sponsorHandle |-> Str(<<"h">>), sponsorUrl |-> url ]

TenChars == [i \in 1..10 |-> "d"]

\* The campaign documents considered: valid ones, and ones violating one or
\* several rules
CampaignDocs ==
    { NoDoc,
      CampaignDoc(Str(X), Str(<<"a", "b", "c">>), Str(TenChars), Num(Fin(5, 0)), Undefined),
      CampaignDoc(Str(FARCASTER), Str(<<"a", "b", "c">>), Str(TenChars), Num(Fin(3, 0)),
                  Str(<<"h", "t", "t", "p", "s", ":", "/", "/", "s", ".", "c", "o">>)),
      CampaignDoc(Str(X), Str(<<"a", "b">>), Str(TenChars), Num(Fin(5, 0)), Undefined),
      CampaignDoc(Str(GITHUB), Str(<<"a", "b", "c">>), Str(TenChars), Num(Fin(5, 0)), Undefined),
      CampaignDoc(Str(X), Str(<<"a", "b", "c">>), Str(TenChars), Num(Fin(11, 0)), Undefined),
      CampaignDoc(Str(X), Str(<<"a", "b", "c">>), Str(TenChars), Num(Fin(25, 1)), Undefined),
      CampaignDoc(Str(X), Str(<<"a", "b", "c">>), Str(TenChars), Num(Fin(5, 0)),
                  Str(<<"s", ".", "c", "o">>)),
      CampaignDoc(Undefined, Num(Fin(5, 0)), Str(<<"d">>), Str(<<"5">>), Null) }

\* sponsor-a-cookie: every document of every kind of source under few
\* environments, and one good command line with every --network option under
\* every environment.
CampaignInvocations ==
    { Invocation("campaign", e,
                 Line(p, Absent, Absent, Absent, Absent, Absent, Absent), d) :
          e \in FewEnvs,
          p \in {<<>>, <<<<"5">>>>, <<<<" ", "{">>>>, <<<<"c", ".", "j", "s", "o", "n">>>>,
                 <<<<"h", "t", "t", "p", ":", "/", "/", "h", "/", "c">>>>},
          d \in CampaignDocs }
    \cup
    { Invocation("campaign", e,
                 Line(<<<<"{">>>>, n, Absent, Absent, Absent, Absent, Absent),
                 CampaignDoc(Str(X), Str(<<"a", "b", "c">>), Str(TenChars),
                             Num(Fin(5, 0)), Undefined)) :
          e \in Envs, n \in NetworkOptions }

\* ai-agent: the prompts considered
Prompts ==
    { Absent, Bare, Given(<<"5">>), Given(<<"h", "e", "l", "l", "o">>),
      Given(<<"s", "e", "n", "d", " ", "1", " ", "u", "s", "d", "c", " ", "t", "o", " ",
              "@", "b", "o", "b", " ", "o", "n", " ", "x">>),
      Given(<<"S", "e", "n", "d", " ", "1", " ", "U", "S", "D", "C", " ", "t", "o", " ",
              "b", "o", "b", " ", "o", "n", " ", "X", " ", "a", "n", "d", " ", "p", "a",
              "y", " ", "@", "a", "l", " ", "0", ".", "5", " ", "u", "s", "d", "c", " ",
              "o", "n", " ", "f", "a", "r", "c", "a", "s", "t", "e", "r">>) }

\* ai-agent: every prompt under every combination of keys, and one prompt
\* with every --network option under every environment.
AgentInvocations ==
    { Invocation("ai-agent", e,
                 Line(<<>>, Absent, Absent, Absent, Absent, Absent, p), NoDoc) :
          e \in AgentEnvs, p \in Prompts }
    \cup
    { Invocation("ai-agent", e,
                 Line(<<>>, n, Absent, Absent, Absent, Absent,
                      Given(<<"p", "a", "y", " ", "a", "l", " ", "2", " ", "u", "s", "d", "c",
                              " ", "o", "n", " ", "x">>)), NoDoc) :
          e \in Envs, n \in NetworkOptions }

Invocations ==
    SendInvocations \cup BatchInvocations \cup PayInvocations
    \cup BatchPayInvocations \cup CampaignInvocations \cup AgentInvocations

----------------------------------------------------------------------------
(* The process model *)

\* No entry point runs (the amount parsers are examined on their own).
ProcIdle ==
    /\ cmd = "none"
    /\ env = Env(Undefined, Undefined, Undefined, Undefined, Undefined)
    /\ argv = Line(<<>>, Absent, Absent, Absent, Absent, Absent, Absent)
    /\ args = minimist(argv)
    /\ doc = NoDoc
    /\ pc = "idle"
    /\ receiverIdentity = Undefined
    /\ receiver = Undefined
    /\ amount = Undefined
    /\ receivers = <<>>
    /\ groups = <<>>
    /\ extracted = <<>>
    /\ typed = <<>>
    /\ useSolana = <<>>
    /\ signers = <<>>
    /\ netlog = <<>>
    /\ posts = <<>>
    /\ exitCode = -1
    /\ err = "none"

NoEvent == [kind |-> "none", code |-> 0]

DispatchIdle ==
    /\ dargs = <<>>
    /\ dpc = "idle"
    /\ children = <<>>
    /\ event = NoEvent
    /\ dcode = -1

AmountIdle ==
    /\ tok = <<>>
    /\ apc = "idle"
    /\ rSingle = Throw("unset")
    /\ rBatch = Throw("unset")

FunctionIdle ==
    /\ fname = "none"
    /\ farg = <<>>
    /\ fres = <<>>
    /\ fpc = "idle"
    /\ DispatchIdle

\* An entry point starts: the argument parser has run, nothing else has.
Init ==
    /\ AmountIdle
    /\ FunctionIdle
    /\ \E inv \in Invocations :
           /\ cmd = inv.cmd
           /\ env = inv.env
           /\ argv = inv.argv
           /\ args = minimist(inv.argv)
           /\ doc = inv.doc
    /\ pc = "start"
    /\ receiverIdentity = Undefined
    /\ receiver = Undefined
    /\ amount = Undefined
    /\ receivers = <<>>
    /\ groups = <<>>
    /\ extracted = <<>>
    /\ typed = <<>>
    /\ useSolana = <<>>
    /\ signers = <<>>
    /\ netlog = <<>>
    /\ posts = <<>>
    /\ exitCode = -1
    /\ err = "none"

Next ==
    \/ SendParseArgs
    \/ SendSelectNetwork
    \/ SendCreateSigner
    \/ SendPost
    \/ BatchParseInput
    \/ BatchInit
    \/ BatchCreateSigner
    \/ BatchPost
    \/ PayParseArgs
    \/ PaySelectNetwork
    \/ PayCreateSigner
    \/ PayPost
    \/ BatchPayParseArgs
    \/ BatchPaySelectNetwork
    \/ BatchPayCreateSigner
    \/ BatchPayPost
    \/ CampaignParseInput
    \/ CampaignSelectNetwork
    \/ CampaignConfirm
    \/ CampaignCreateSigner
    \/ CampaignPost
    \/ AgentSelectNetwork
    \/ AgentCheckPrompt
    \/ AgentParse
    \/ AgentCreateSigner
    \/ AgentPost

Spec == Init /\ [][Next]_vars

----------------------------------------------------------------------------
(* AmountSpec: every token over a small alphabet is given to both parsers. *)

MaxLen == 3

AmountAlphabet == {"0", "1", "5", ".", "$", CENT, NOT_SIGN, "a", " "}

ExtraTokens ==
    { <<"1", "a", "b", "c">>,
      INFINITY,
      <<"$">> \o INFINITY,
      INFINITY \o <<CENT>>,
      <<"1", "e", "1">>,
      <<"$", "0", ".", "5", "0">>,
      <<"2", "5", "0", "0", CENT>>,
      <<"5", "0", NOT_SIGN, CENT>>,
      <<"$", "5", NOT_SIGN, CENT>>,
      <<"-", "5", CENT>>,
      <<"-", "1">> }

Tokens == UNION {[1..k -> AmountAlphabet] : k \in 0..MaxLen} \cup ExtraTokens

AmountInit ==
    /\ tok \in Tokens
    /\ apc = "input"
    /\ rSingle = Throw("unset")
    /\ rBatch = Throw("unset")
    /\ FunctionIdle
    /\ ProcIdle

ApplyParseAmount ==
    /\ apc = "input"
    /\ apc' = "parsed"
    /\ rSingle' = parseAmount(Str(tok))
    /\ rBatch' = parseAmountBatch(Str(tok))
    /\ UNCHANGED tok
    /\ UNCHANGED <<fvars, pvars, dvars>>

AmountNext == ApplyParseAmount

AmountSpec == AmountInit /\ [][AmountNext]_vars

----------------------------------------------------------------------------
(* The validators and parsers, one call at a time *)

\* Platform tokens: every alias, aliases in other cases, near misses, the
\* empty token and the property names an object literal inherits.
PlatformTokens ==
    { X, X \o DOT_COM, TWITTER, TWITTER \o DOT_COM, FARCASTER,
      FARCASTER \o <<".", "x", "y", "z">>, GITHUB, GITHUB \o DOT_COM, EMAIL, WEB,
      <<"X">>, <<"X", ".", "C", "o", "m">>, <<"T", "w", "i", "t", "t", "e", "r">>,
      <<"T", "W", "I", "T", "T", "E", "R", ".", "C", "O", "M">>,
      <<"F", "a", "r", "c", "a", "s", "t", "e", "r">>,
      <<"G", "I", "T", "H", "U", "B">>, <<"g", "i", "t", "H", "u", "b", ".", "c", "o", "m">>,
      <<"E", "m", "a", "i", "l">>, <<"W", "E", "B">>,
      <<>>, <<" ">>, <<"x", " ">>, <<"x", "x">>, <<"x", ".", "o", "r", "g">>,
      <<"w", "e", "b", "3">>, <<"e", "-", "m", "a", "i", "l">>,
      <<"g", "i", "t">>, <<"f", "a", "r", "c", "a", "s", "t", "e", "r", ".", "c", "o", "m">>,
      <<"t", "e", "l", "e", "g", "r", "a", "m">>, <<"1">>,
      <<"c", "o", "n", "s", "t", "r", "u", "c", "t", "o", "r">>,
      <<"C", "o", "n", "s", "t", "r", "u", "c", "t", "o", "r">>,
      <<"_", "_", "p", "r", "o", "t", "o", "_", "_">>,
      <<"_", "_", "P", "R", "O", "T", "O", "_", "_">>,
      <<"t", "o", "s", "t", "r", "i", "n", "g">>,
      <<"p", "r", "o", "t", "o", "t", "y", "p", "e">> }

\* n times the character c
Rep(c, n) == [i \in 1..n |-> c]

\* Receivers for platform x: of every length from 0 to 17, with every kind of
\* character the rule allows, and with characters it does not allow.
XReceivers ==
    { Rep("a", n) : n \in 0..17 }
    \cup { Rep("_", n) : n \in {1, 15, 16} }
    \cup { Rep("7", n) : n \in {1, 15, 16} }
    \cup { Rep("Z", 14) \o <<c>> : c \in {"a", "_", "0", "-", ".", " ", "@"} }
    \cup { <<"a", "b">>, <<"A", "_", "9">>, <<"@", "a", "b">>, <<"a", "-", "b">>,
           <<"a", ".", "b">>, <<"a", " ">>, <<" ", "a">>, <<" ">>, <<"a", "/", "b">>,
           <<"a", ":", "b">>, <<"a", ",", "b">>, <<"a", CENT>>, <<"a", "$">>,
           <<"t", "o", "o", "l", "o", "n", "g", "u", "s", "e", "r", "n", "a", "m",
             "e", "1", "2", "3", "4">> }

\* Batch inputs of every shape, and of several shapes at once.
ShapedInputs ==
    { HTTP \o <<"h">>, HTTPS \o <<"h">>, HTTP \o <<"h", ".", "j", "s", "o", "n">>,
      HTTPS \o <<"{">>, HTTP, <<"h", "t", "t", "p", ":", "/">>,
      <<"H", "T", "T", "P", ":", "/", "/", "h">>, <<" ">> \o HTTP \o <<"h">>,
      <<"f", "i", "l", "e", ":", "p">>, <<"f", "i", "l", "e", ":">>,
      <<"f", "i", "l", "e", ":", "p", ".", "j", "s", "o", "n">>,
      <<"f", "i", "l", "e", ":", "{">>, <<"f", "i", "l", "e", ":">> \o HTTP \o <<"h">>,
      <<"f", "i", "l", "e", ":", "f", "i", "l", "e", ":", "p">>,
      <<"F", "i", "l", "e", ":", "p">>, <<"f", "i", "l", "e">>,
      <<"p", ".", "j", "s", "o", "n">>, <<".", "j", "s", "o", "n">>,
      <<"p", ".", "J", "S", "O", "N">>, <<"p", ".", "j", "s", "o", "n", " ">>,
      <<"{", "}", ".", "j", "s", "o", "n">>, <<"{">>, <<"{", "}">>, <<" ", "{", "}">>,
      <<"x", "/", "a", ":", "1">>, <<"x", "/", "a", ":", "1", ".", "j", "s", "o", "n">>,
      <<"x", "/", "{", ":", "1">>, <<"x", "/", "a", ".", "j", "s", "o", "n", ":", "1">>,
      <<"j", "s", "o", "n">>, <<"a">> }

\* Batches in both forms: a platform token and a list of <<receiver, amount
\* token>> pairs. Every platform, receiver and amount token in a list of one
\* pair, and lists of two and three pairs with a bad pair at every position.
BatchPlatforms ==
    { X, <<"X", ".", "c", "o", "m">>, TWITTER, FARCASTER, GITHUB, EMAIL, WEB,
      <<"n", "o", "p", "e">>, <<>>,
      <<"c", "o", "n", "s", "t", "r", "u", "c", "t", "o", "r">> }

BatchReceivers ==
    { <<"a", "l", "i", "c", "e">>, <<"b", "o", "b">>, <<>>, <<"a", "-", "b">>,
      <<"a", " ", "b">>, <<"a", "@", "b", ".", "c", "o">>, <<"a", ".", "c", "o">>,
      <<"a", "/", "b">>, Rep("a", 16) }

BatchAmounts ==
    { <<"5", CENT>>, <<"5", NOT_SIGN, CENT>>, <<"$", "0", ".", "5">>, <<"1">>,
      <<"0", ".", "5">>, <<" ", "1", " ">>, <<"a", "b", "c">>, <<>>, <<"$">>,
      <<"1", "a">>, <<"1", ",", "5">>, <<"1", ":", "5">> }

GoodPair == << <<"b", "o", "b">>, <<"$", "0", ".", "5">> >>

BadPairs ==
    { << Rep("a", 16), <<"1">> >>, << <<"a", "l">>, <<"a", "b", "c">> >>,
      << <<>>, <<"1">> >>, << <<"a", "l">>, <<>> >> }

BatchLists ==
    { << <<r, a>> >> : r \in BatchReceivers, a \in BatchAmounts }
    \cup { << << <<"a", "l", "i", "c", "e">>, a >>, GoodPair >> : a \in BatchAmounts }
    \cup { <<GoodPair, b>> : b \in BadPairs }
    \cup { <<b, GoodPair>> : b \in BadPairs }
    \cup { <<GoodPair, b, GoodPair>> : b \in BadPairs }
    \cup { <<GoodPair, GoodPair, GoodPair>> }

\* Campaign objects.  A valid one, with a field the validator does not know:
GoodCampaign ==
    [ avail |-> TRUE, platform |-> Str(X), name |-> Str(Rep("n", 3)),
      description |-> Str(Rep("d", 10)), totalCookies |-> Num(Fin(3, 0)),
      sponsor |-> Inherited, sponsorName |-> Str(<<"s">>),
      sponsorHandle |-> Str(<<"h">>), sponsorUrl |-> Undefined,
      extra |-> Str(<<"e">>) ]

\* a value for each field that violates its rule;
BadCampaign ==
    [ avail |-> TRUE, platform |-> Str(GITHUB), name |-> Str(Rep("n", 2)),
      description |-> Str(Rep("d", 9)), totalCookies |-> Num(Fin(2, 0)),
      sponsor |-> Inherited, sponsorName |-> Str(<<>>),
      sponsorHandle |-> Str(Rep("h", 51)), sponsorUrl |-> Str(<<"s", ".", "c", "o">>),
      extra |-> Str(<<"e">>) ]

CampaignFields ==
    { "platform", "name", "description", "totalCookies", "sponsorName",
      "sponsorHandle", "sponsorUrl" }

\* the values considered for each field, at and around every bound;
FieldValues(f) ==
    CASE f = "platform" ->
            { Str(X), Str(FARCASTER), Str(<<"X">>), Str(GITHUB), Str(TWITTER),
              Str(<<>>), Undefined, Null, Num(Fin(1, 0)) }
      [] f = "name" ->
            { Str(Rep("n", n)) : n \in {0, 1, 2, 3, 4, 99, 100, 101} }
            \cup { Undefined, Null, Num(Fin(123, 0)), True }
      [] f = "description" ->
            { Str(Rep("d", n)) : n \in {0, 9, 10, 11, 499, 500, 501} }
            \cup { Undefined, Num(Fin(1234567890, 0)) }
      [] f = "totalCookies" ->
            { Num(Fin(n, 0)) : n \in {-3, 0, 2, 3, 4, 9, 10, 11, 100} }
            \cup { Num(Fin(25, 1)), Num(Fin(35, 1)), Num(NaN), Num(Infinity(FALSE)),
                   Str(<<"5">>), Undefined, Null, True }
      [] f = "sponsorName" ->
            { Str(Rep("s", n)) : n \in {0, 1, 2, 100, 101} } \cup { Undefined, Num(Fin(7, 0)) }
      [] f = "sponsorHandle" ->
            { Str(Rep("h", n)) : n \in {0, 1, 2, 50, 51} } \cup { Undefined, Num(Fin(7, 0)) }
      [] f = "sponsorUrl" ->
            { Undefined, Null, Num(Fin(1, 0)), Str(<<>>),
              Str(<<"h", "t", "t", "p", "s", ":", "/", "/", "s", ".", "c", "o">>),
              Str(<<"h", "t", "t", "p", ":", "/", "/", "s", ".", "c", "o", "/", "p">>),
              Str(<<"m", "a", "i", "l", "t", "o", ":", "a", "@", "b", ".", "c", "o">>),
              Str(<<"s", ".", "c", "o">>), Str(<<"/", "p">>),
              Str(<<"h", "t", "t", "p", "s", ":", "/", "/">>) }

\* an object without sponsor has no sponsor field either.
WithoutSponsor(d) ==
    [d EXCEPT !.sponsor = Undefined, !.sponsorName = Undefined,
              !.sponsorHandle = Undefined, !.sponsorUrl = Undefined]

\* The valid object with one field at each of its values, the objects that
\* violate any set of fields at once, and both kinds without sponsor.
CampaignObjects ==
    { [GoodCampaign EXCEPT ![f] = v] : <<f, v>> \in
          UNION { {f} \X FieldValues(f) : f \in CampaignFields } }
    \cup { [f \in DOMAIN GoodCampaign |->
               IF f \in S THEN BadCampaign[f] ELSE GoodCampaign[f]] :
           S \in SUBSET CampaignFields }
    \cup { WithoutSponsor([f \in DOMAIN GoodCampaign |->
                             IF f \in S THEN BadCampaign[f] ELSE GoodCampaign[f]]) :
           S \in SUBSET {"platform", "name", "totalCookies"} }

\* Payment phrases.  The amounts N, each with its value;
PhraseAmounts ==
    { << <<"1">>, Fin(1, 0) >>, << <<"0", ".", "5">>, Fin(5, 1) >>,
      << <<"2", ".">>, Fin(2, 0) >>, << <<"1", "0">>, Fin(10, 0) >>,
      << <<"0", ".", "0", "5">>, Fin(5, 2) >> }

\* the users, some named like a word of a template;
PhraseUsers ==
    { <<"a", "l", "i", "c", "e">>, <<"B", "o", "b", "_", "9">>, <<"s", "e", "n", "d">>,
      <<"p", "a", "y">>, <<"o", "n">>, <<"u", "s", "d", "c">>, <<"x">>, <<"t", "o">> }

\* the platforms, as typed;
PhrasePlatforms ==
    { X, <<"X">>, FARCASTER, <<"F", "a", "r", "c", "a", "s", "t", "e", "r">>, WEB, EMAIL,
      GITHUB, <<"G", "I", "T", "H", "U", "B">> }

\* the words of the templates, in lower and in upper case.
PhraseWords ==
    { [send |-> <<"s", "e", "n", "d">>, pay |-> <<"p", "a", "y">>,
       usdc |-> <<"u", "s", "d", "c">>, to |-> <<"t", "o">>, on |-> <<"o", "n">>],
      [send |-> <<"S", "e", "n", "d">>, pay |-> <<"P", "A", "Y">>,
       usdc |-> <<"U", "S", "D", "C">>, to |-> <<"T", "o">>, on |-> <<"O", "N">>] }

\* A phrase is [template, words, at, n, user, platform]; its text:
PhraseText(ph) ==
    CASE ph.template = 1 ->
            ph.words.send \o <<" ">> \o ph.n[1] \o <<" ">> \o ph.words.usdc \o <<" ">>
            \o ph.words.to \o <<" ">> \o ph.at \o ph.user \o <<" ">> \o ph.words.on
            \o <<" ">> \o ph.platform
      [] ph.template = 2 ->
            ph.words.pay \o <<" ">> \o ph.at \o ph.user \o <<" ">> \o ph.n[1] \o <<" ">>
            \o ph.words.usdc \o <<" ">> \o ph.words.on \o <<" ">> \o ph.platform
      [] ph.template = 3 ->
            ph.at \o ph.user \o <<" ">> \o ph.words.on \o <<" ">> \o ph.platform
            \o <<" ">> \o ph.n[1] \o <<" ">> \o ph.words.usdc

Phrases ==
    [ template : 1..3, words : PhraseWords, at : {<<>>, <<"@">>}, n : PhraseAmounts,
      user : PhraseUsers, platform : PhrasePlatforms ]

\* Fewer phrases, for the prompts of two phrases.
FewPhrases ==
    { ph \in Phrases :
        /\ ph.words.send = <<"s", "e", "n", "d">>
        /\ ph.at = <<"@">>
        /\ ph.n[1] \in {<<"1">>, <<"0", ".", "5">>}
        /\ ph.user \in {<<"a", "l", "i", "c", "e">>, <<"o", "n">>}
        /\ ph.platform \in {X, FARCASTER} }

\* A prompt is a list of phrases; its text joins them with " and ".
PhrasePrompts ==
    { <<ph>> : ph \in Phrases } \cup { <<p, q>> : p \in FewPhrases, q \in FewPhrases }

RECURSIVE PromptText(_, _)
PromptText(phrases, i) ==
    IF i > Len(phrases) THEN <<>>
    ELSE (IF i > 1 THEN <<" ", "a", "n", "d", " ">> ELSE <<>>)
         \o PhraseText(phrases[i]) \o PromptText(phrases, i + 1)

\* Base URLs of the resource server: the default, local servers, and URLs
\* that hold a local name elsewhere than in their host.
LocalServerURLs ==
    { HTTP \o LOCALHOST \o <<":", "3", "0", "0", "0">>,
      HTTP \o LOCALHOST,
      HTTP \o LOOPBACK \o <<":", "3", "0", "0", "0">>,
      HTTP \o <<"L", "O", "C", "A", "L", "H", "O", "S", "T">>,
      HTTP \o <<"[", ":", ":", "1", "]", ":", "3", "0", "0", "0">>,
      HTTP \o <<"1", "2", "7", ".", "0", ".", "0", ".", "2">> }

RemoteServerURLs ==
    { DEFAULT_URL,
      HTTP \o <<"h", ".", "c", "o">>,
      HTTP \o <<"h", ".", "c", "o", "/">> \o LOCALHOST,
      HTTP \o <<"h", ".", "c", "o", "/", "?", "r", "=">> \o LOOPBACK,
      HTTP \o LOCALHOST \o <<".", "h", ".", "c", "o">>,
      HTTP \o <<"m", "y">> \o LOCALHOST \o <<".", "c", "o">>,
      HTTP \o <<"a">> \o LOOPBACK \o <<".", "c", "o">> }

\* What either parseAmount may be handed: every token as a string, and the
\* numbers a JSON document may hold as an amount.
AmountNumbers == {Fin(0, 0), Fin(1, 0), Fin(5, -1), Fin(25, -2), Fin(-1, 0)}

AmountValues == { Str(t) : t \in Tokens } \cup { Num(n) : n \in AmountNumbers }

FunctionInputs ==
    { <<"normalizePlatform", t>> : t \in PlatformTokens }
    \cup { <<"parseAmount", v>> : v \in AmountValues }
    \cup { <<"signerNetwork", <<b, u>>>> :
             b \in BOOLEAN, u \in LocalServerURLs \cup RemoteServerURLs }
    \cup { <<"fallbackParser", ps>> : ps \in PhrasePrompts }
    \cup { <<"validateCampaignData", d>> : d \in CampaignObjects }
    \cup { <<"batchForms", <<pl, l>>>> : pl \in BatchPlatforms, l \in BatchLists }
    \cup { <<"parseInput", i>> : i \in ShapedInputs }
    \cup { <<"validateReceiver", r>> : r \in XReceivers }

FunctionInit ==
    /\ \E in \in FunctionInputs :
           /\ fname = in[1]
           /\ farg = in[2]
    /\ fres = <<>>
    /\ fpc = "input"
    /\ AmountIdle
    /\ ProcIdle
    /\ DispatchIdle

\* What a second call makes of the result of a first.
Again(r) == IF r.ok THEN normalizePlatform(r.v) ELSE r

\* normalizePlatform(token), then normalizePlatform of what it returned.
ApplyNormalizePlatform ==
    /\ fpc = "input"
    /\ fname = "normalizePlatform"
    /\ fpc' = "applied"
    /\ fres' = <<normalizePlatform(Str(farg)),
                 Again(normalizePlatform(Str(farg)))>>
    /\ UNCHANGED <<fname, farg>>
    /\ UNCHANGED <<avars, pvars, dvars>>

\* A batch of two items for platform x, the second one for the receiver r
XPairs(r) == <<"x", "/", "a", ":", "1", ",">> \o r \o <<":", "1">>

XDoc(r) ==
    BatchDoc(Str(X), TRUE, <<[receiver |-> Str(<<"a">>), amount |-> Num(Fin(1, 0))],
                             [receiver |-> Str(r), amount |-> Num(Fin(1, 0))]>>)

\* The receiver validated on its own, as the target of a single send, as an
\* item of a comma-separated batch and as an item of a JSON batch.
ApplyValidateReceiver ==
    /\ fpc = "input"
    /\ fname = "validateReceiver"
    /\ fpc' = "applied"
    /\ fres' = <<validateReceiver(Str(X), farg),
                 parsePaymentTarget(Str(<<"x", "/">> \o farg)),
                 parseCommaSeparated(XPairs(farg)),
                 parseJSONPayments(XDoc(farg))>>
    /\ UNCHANGED <<fname, farg>>
    /\ UNCHANGED <<avars, pvars, dvars>>

\* The interpretation parseInput selects, and what that interpretation reads.
ApplyParseInput ==
    /\ fpc = "input"
    /\ fname = "parseInput"
    /\ fpc' = "applied"
    /\ fres' = <<InputKind(farg), InputSource(InputKind(farg), farg)>>
    /\ UNCHANGED <<fname, farg>>
    /\ UNCHANGED <<avars, pvars, dvars>>

\* r1:a1,...,rn:an from pair i on
RECURSIVE JoinPairs(_, _)
JoinPairs(pairs, i) ==
    IF i > Len(pairs) THEN <<>>
    ELSE (IF i > 1 THEN <<",">> ELSE <<>>)
         \o pairs[i][1] \o <<":">> \o pairs[i][2] \o JoinPairs(pairs, i + 1)

\* The comma-separated form platform/r1:a1,...,rn:an
CommaForm(platform, pairs) == platform \o <<"/">> \o JoinPairs(pairs, 1)

\* The JSON form {platform, payments: [{receiver: ri, amount: ai}]}
JSONForm(platform, pairs) ==
    BatchDoc(Str(platform), TRUE,
             [i \in 1..Len(pairs) |->
                 [receiver |-> Str(pairs[i][1]), amount |-> Str(pairs[i][2])]])

\* The same batch parsed in its comma-separated and in its JSON form.
ApplyBatchForms ==
    /\ fpc = "input"
    /\ fname = "batchForms"
    /\ fpc' = "applied"
    /\ fres' = <<parseCommaSeparated(CommaForm(farg[1], farg[2])),
                 parseJSONPayments(JSONForm(farg[1], farg[2]))>>
    /\ UNCHANGED <<fname, farg>>
    /\ UNCHANGED <<avars, pvars, dvars>>

\* validateCampaignData(data): the violations collected, and what the call
\* returns or throws.
ApplyValidateCampaignData ==
    /\ fpc = "input"
    /\ fname = "validateCampaignData"
    /\ fpc' = "applied"
    /\ fres' = <<validateCampaignData(farg),
                 CampaignDataOf(farg, validateCampaignData(farg))>>
    /\ UNCHANGED <<fname, farg>>
    /\ UNCHANGED <<avars, pvars, dvars>>

\* fallbackParser(prompt) for a prompt of one or two phrases
ApplyFallbackParser ==
    /\ fpc = "input"
    /\ fname = "fallbackParser"
    /\ fpc' = "applied"
    /\ fres' = fallbackParser(Str(PromptText(farg, 1)))
    /\ UNCHANGED <<fname, farg>>
    /\ UNCHANGED <<avars, pvars, dvars>>

\* The network a signer is created for, the name displayed for it by the
\* entry points and by ai-agent, and the cluster of the explorer link.
ApplySignerNetwork ==
    /\ fpc = "input"
    /\ fname = "signerNetwork"
    /\ fpc' = "applied"
    /\ fres' = <<signerNetwork(farg[1], farg[2]),
                 networkName(farg[1], signerNetwork(farg[1], farg[2])),
                 agentNetworkName(farg[1], farg[2]),
                 explorerCluster(signerNetwork(farg[1], farg[2]))>>
    /\ UNCHANGED <<fname, farg>>
    /\ UNCHANGED <<avars, pvars, dvars>>

\* Both variants of parseAmount applied to the same value.
ApplyBothParseAmount ==
    /\ fpc = "input"
    /\ fname = "parseAmount"
    /\ fpc' = "applied"
    /\ fres' = <<parseAmount(farg), parseAmountBatch(farg)>>
    /\ UNCHANGED <<fname, farg>>
    /\ UNCHANGED <<avars, pvars, dvars>>

FunctionNext ==
    \/ ApplyNormalizePlatform
    \/ ApplyBothParseAmount
    \/ ApplySignerNetwork
    \/ ApplyFallbackParser
    \/ ApplyValidateCampaignData
    \/ ApplyBatchForms
    \/ ApplyParseInput
    \/ ApplyValidateReceiver

FunctionSpec == FunctionInit /\ [][FunctionNext]_vars

----------------------------------------------------------------------------
(* The snackmoney dispatcher: snackmoney <command> [options]                 *)

\* const commands = { pay: "pay.js", ... }
commands ==
    [ c \in {"pay", "batch-pay", "ai-agent", "sponsor-a-cookie"} |->
        CASE c = "pay" -> "pay.js"
          [] c = "batch-pay" -> "batch_pay.js"
          [] c = "ai-agent" -> "ai-payment-agent.js"
          [] c = "sponsor-a-cookie" -> "sponsor-a-cookie.js" ]

\* Names every object literal answers to through its prototype.
InheritedNames == {"constructor", "toString", "__proto__"}

DispatchExit(code) ==
    /\ dpc' = "exited"
    /\ dcode' = code

\* runCommand: one child, node <script> ...args.  A name found through the
\* prototype is not a string, and join() throws on it: an uncaught exception
\* ends the process with status 1.
runCommand(command) ==
    IF command \in DOMAIN commands
    THEN /\ children' = Append(children, [script |-> commands[command], args |-> Tail(dargs)])
         /\ dpc' = "running"
         /\ UNCHANGED dcode
    ELSE /\ DispatchExit(1)
         /\ UNCHANGED children

\* main
DispatchMain ==
    /\ dpc = "main"
    /\ IF dargs = <<>> \/ dargs[1] \in {"--help", "-h"}
       THEN DispatchExit(0) /\ UNCHANGED children
       ELSE IF dargs[1] \in {"--version", "-v"}
       THEN DispatchExit(0) /\ UNCHANGED children
       ELSE IF dargs[1] \in DOMAIN commands \cup InheritedNames
       THEN runCommand(dargs[1])
       ELSE DispatchExit(1) /\ UNCHANGED children
    /\ UNCHANGED <<dargs, event>>
    /\ UNCHANGED <<avars, fvars, pvars>>

\* What a child may emit: "error" when it could not be started, or "exit"
\* with its exit code, which is null when a signal ended it.
ChildEvents ==
    { [kind |-> "error", code |-> 0], [kind |-> "signal", code |-> 0] }
    \cup { [kind |-> "exit", code |-> c] : c \in {0, 1, 2, 130} }

\* child.on("error", ...) exits 1; child.on("exit", code => exit(code || 0))
DispatchChildEvent ==
    /\ dpc = "running"
    /\ \E e \in ChildEvents :
           /\ event' = e
           /\ IF e.kind = "error" THEN DispatchExit(1)
              ELSE IF e.kind = "signal" THEN DispatchExit(0)
              ELSE DispatchExit(e.code)
    /\ UNCHANGED <<dargs, children>>
    /\ UNCHANGED <<avars, fvars, pvars>>

\* The command lines considered.
DispatchWords ==
    { "--help", "-h", "--version", "-v", "pay", "batch-pay", "ai-agent",
      "sponsor-a-cookie", "send", "nope", "constructor" }

DispatchRests ==
    { <<>>, <<"--help">>, <<"--receiver", "al", "--amount", "5">>,
      <<"b", "a">>, <<"pay">> }

DispatchLines == {<<>>} \cup { <<w>> \o r : w \in DispatchWords, r \in DispatchRests }

DispatchInit ==
    /\ dargs \in DispatchLines
    /\ dpc = "main"
    /\ children = <<>>
    /\ event = NoEvent
    /\ dcode = -1
    /\ AmountIdle
    /\ fname = "none"
    /\ farg = <<>>
    /\ fres = <<>>
    /\ fpc = "idle"
    /\ ProcIdle

DispatchNext ==
    \/ DispatchMain
    \/ DispatchChildEvent

DispatchSpec == DispatchInit /\ [][DispatchNext]_vars

----------------------------------------------------------------------------
(* Properties of network selection *)

\* The --network value as typed, lower-cased, when one was typed.
FlagNamesNetwork ==
    /\ argv.network.hasValue
    /\ toLowerCase(argv.network.raw) \in allowedNetworks

\* The key of the network the flag names is set and non-empty.
FlagKeyConfigured ==
    IF toLowerCase(argv.network.raw) = SOLANA THEN hasSvmKey ELSE hasEvmKey

SelectionErrors ==
    {"InvalidNetwork", "MissingCredential", "AmbiguousNetwork", "NoCredential"}

NothingPaid == signers = <<>> /\ posts = <<>> /\ \A i \in 1..Len(netlog) : netlog[i] # "post"

\* C1: without a --network flag, network selection succeeds only when exactly
\* one of the two private keys is configured, and then selects that key's
\* network; it never fails when exactly one is configured; with both it fails
\* as ambiguous, with neither as lacking a credential, and after either
\* failure the process has exited non-zero with no signer and no payment
\* request.
C1_AutoDetect ==
    ~argv.network.given =>
        /\ useSolana # <<>> =>
              /\ hasEvmKey # hasSvmKey
              /\ useSolana = <<hasSvmKey>>
        /\ (hasEvmKey # hasSvmKey) => err \notin SelectionErrors
        /\ err = "AmbiguousNetwork" => hasEvmKey /\ hasSvmKey
        /\ err = "NoCredential" => ~hasEvmKey /\ ~hasSvmKey
        /\ err \notin {"InvalidNetwork", "MissingCredential"}
        /\ err \in {"AmbiguousNetwork", "NoCredential"} =>
              /\ pc = "exited"
              /\ exitCode > 0
              /\ useSolana = <<>>
              /\ NothingPaid

\* Only the Solana key is set, no flag is given, and the payment went out on
\* Solana.
C1_Witness ==
    /\ ~argv.network.given
    /\ hasSvmKey /\ ~hasEvmKey
    /\ useSolana = <<TRUE>>
    /\ posts # <<>>
    /\ posts[1].network = "solana"

\* C2: with --network base or --network solana (in any letter case), the
\* outcome depends on that network's own key only: when it is configured the
\* named network is selected whatever the other key is, and when it is not
\* the process fails for a missing credential, with nothing selected, no
\* signer and no payment request.
C2_ExplicitFlag ==
    FlagNamesNetwork =>
        /\ useSolana # <<>> =>
              /\ FlagKeyConfigured
              /\ useSolana = <<toLowerCase(argv.network.raw) = SOLANA>>
        /\ FlagKeyConfigured => err \notin SelectionErrors
        /\ ~FlagKeyConfigured => useSolana = <<>> /\ NothingPaid
        /\ err = "MissingCredential" =>
              /\ ~FlagKeyConfigured
              /\ pc = "exited"
              /\ exitCode > 0
        /\ err \notin {"InvalidNetwork", "AmbiguousNetwork", "NoCredential"}

\* --network BASE with only the Solana key set: the missing credential ends
\* the run, and Solana is not used instead.
C2_Witness ==
    /\ argv.network = Given(<<"B", "A", "S", "E">>)
    /\ hasSvmKey /\ ~hasEvmKey
    /\ pc = "exited"
    /\ err = "MissingCredential"

\* C3: a --network value other than base and solana ends the process with the
\* invalid-network failure, whatever keys are set: no network is selected and
\* the run is not treated as one without a flag.
C3_InvalidFlagFails ==
    (argv.network.hasValue /\ ~FlagNamesNetwork) =>
        /\ useSolana = <<>>
        /\ err \notin {"AmbiguousNetwork", "NoCredential"}
        /\ NothingPaid

\* C4: a signer is created only for the selected network and with that
\* network's configured, non-empty key; useSolana is assigned at most once; and
\* every request of the invocation is signed for the same network.
C4_SignerMatchesKey ==
    /\ Len(useSolana) <= 1
    /\ (signers # <<>> \/ posts # <<>>) => useSolana # <<>>
    /\ \A i \in 1..Len(signers) :
          IF signers[i].network = "base"
          THEN /\ useSolana = <<FALSE>>
               /\ env.EVM_PRIVATE_KEY.t = "string"
               /\ env.EVM_PRIVATE_KEY.s # <<>>
               /\ signers[i].key = env.EVM_PRIVATE_KEY
          ELSE /\ signers[i].network \in {"solana", "solana-devnet"}
               /\ useSolana = <<TRUE>>
               /\ env.SVM_PRIVATE_KEY.t = "string"
               /\ env.SVM_PRIVATE_KEY.s # <<>>
               /\ signers[i].key = env.SVM_PRIVATE_KEY
    /\ \A i \in 1..Len(posts) :
          /\ posts[i].network = posts[1].network
          /\ posts[i].network = signers[1].network

\* An ai-agent run that paid two platform groups, both on Solana.
C4_Witness ==
    /\ cmd = "ai-agent"
    /\ Len(posts) = 2
    /\ Len(signers) = 2
    /\ useSolana = <<TRUE>>
    /\ posts[2].network = "solana"

----------------------------------------------------------------------------
(* Properties of the order of validation, network I/O and exit *)

\* The reasons a run ends for that are failures of parsing, of validation or
\* of network selection.
InputErrors ==
    { "Usage", "TypeError", "MalformedTarget", "UnknownPlatform",
      "InvalidReceiver", "InvalidCents", "InvalidDollar", "InvalidAmount",
      "ShellHazard", "PlatformNotAllowed", "MissingPlatform",
      "PaymentsNotArray", "MissingReceiver", "MissingAmount",
      "MalformedInput", "InvalidReceivers", "ValidationFailed",
      "NoInstructions", "LLMMalformed" } \cup SelectionErrors

\* The reasons a run ends for that are failures of a request or of its setup.
RequestErrors == {"SignerFailed", "RequestFailed", "ReceiptFailed"}

\* The input of the invocation passes the parsing and validation of its
\* entry point.
InputAccepted ==
    CASE cmd = "send" ->
            /\ Len(args.positional) >= 2
            /\ parsePaymentTarget(args.positional[1]).ok
            /\ parseAmount(args.positional[2]).ok
      [] cmd = "batch-send" ->
            /\ Len(args.positional) >= 1
            /\ args.positional[1].t = "string"
            /\ DescriptorOf(InputKind(args.positional[1].s),
                            args.positional[1].s, doc).ok
      [] cmd = "campaign" ->
            /\ Len(args.positional) >= 1
            /\ doc.avail
            /\ validateCampaignData(doc) = <<>>
      [] cmd = "ai-agent" -> Truthy(args.prompt)
      [] cmd = "pay" ->
            /\ IdentityCheck(args.receiver_identity) = "none"
            /\ ~isNaN(parseFloatValue(args.amount))
      [] cmd = "batch-pay" ->
            /\ IdentityCheck(args.receiver_identity) = "none"
            /\ doc.avail
      [] OTHER -> FALSE

\* C5 as stated: a run that ends with a parsing, validation or
\* network-selection error has done no network I/O of any kind.
C5_NoIOBeforeError ==
    err \in InputErrors => netlog = <<>>

\* C5, amended: a signer is created and a payment request is issued only
\* after the input was accepted and the network selected, so a run that ends
\* with a parsing, validation or network-selection error has created no signer
\* and sent no payment request; the only network I/O such a run can have done
\* is the fetch of a remote batch or campaign document and the language-model
\* call, which come before the validation of what they return.
C5_NoPaymentBeforeError ==
    /\ err \in InputErrors =>
          /\ NothingPaid
          /\ \A i \in 1..Len(netlog) : netlog[i] \in {"fetch", "llm"}
          /\ Len(netlog) <= 1
    /\ ~NothingPaid => InputAccepted /\ useSolana # <<>>
    /\ \A i \in 1..Len(netlog) :
          /\ netlog[i] = "fetch" => cmd \in {"batch-send", "campaign"} /\ i = 1
          /\ netlog[i] = "llm" => cmd = "ai-agent" /\ i = 1

\* A batch send whose remote document was fetched and then rejected.
C5_Witness ==
    /\ cmd = "batch-send"
    /\ netlog = <<"fetch">>
    /\ pc = "exited"
    /\ err = "InvalidReceiver"
    /\ NothingPaid

\* C6 as stated: the exit status is non-zero after any validation or request
\* failure, and zero only when the request(s) of the run succeeded.
C6_ZeroOnlyOnSuccess ==
    pc = "exited" =>
        /\ err \in InputErrors \cup RequestErrors => exitCode > 0
        /\ exitCode = 0 =>
              /\ posts # <<>>
              /\ \A i \in 1..Len(posts) : posts[i].response = "ok"

\* C6, amended: the exit status is non-zero after any validation or request
\* failure; it is zero only when every request of the run succeeded and none
\* is left to issue, or when the user declined the confirmation of a campaign,
\* in which case no signer was created and no request issued.
C6_ExitStatus ==
    pc = "exited" =>
        /\ exitCode \in {0, 1}
        /\ err \in InputErrors \cup RequestErrors => exitCode = 1
        /\ (\E i \in 1..Len(posts) : posts[i].response # "ok") => exitCode = 1
        /\ exitCode = 0 =>
              \/ /\ posts # <<>>
                 /\ \A i \in 1..Len(posts) : posts[i].response = "ok"
                 /\ groups = <<>>
                 /\ err = "none"
              \/ /\ cmd = "campaign"
                 /\ err = "Cancelled"
                 /\ NothingPaid

\* A campaign whose confirmation was declined: status 0 and nothing sent.
C6_Witness ==
    /\ cmd = "campaign"
    /\ pc = "exited"
    /\ err = "Cancelled"
    /\ exitCode = 0
    /\ posts = <<>>

----------------------------------------------------------------------------
(* Properties of the amount notations *)

\* s is one or more digits.
IsWhole(s) == s # <<>> /\ \A i \in 1..Len(s) : s[i] \in Digits

\* The number of characters of s after its decimal point.
ScaleOf(s) ==
    IF \E i \in 1..Len(s) : s[i] = "."
    THEN Len(s) - LastIndexFrom(s, Len(s), ".")
    ELSE 0

\* The digits of s, in order.
DigitsOf(s) == SelectSeq(s, LAMBDA c : c \in Digits)

\* s is digits, a point, and at least one digit: a decimal with a fraction.
IsFraction(s) ==
    \E k \in 1..Len(s) - 1 :
        /\ s[k] = "."
        /\ \A i \in 1..Len(s) : i # k => s[i] \in Digits

\* s is digits, or a decimal with a fraction.
IsPlainDecimal(s) == IsWhole(s) \/ IsFraction(s)

\* The number v is exactly the decimal that s writes (s a plain decimal).
IsValueOf(v, s) ==
    /\ v.k = "fin"
    /\ v.m * Pow10(ScaleOf(s)) = DigitsValue(DigitsOf(s)) * Pow10(v.e)

\* The number v is exactly n / 100.
IsHundredthOf(v, n) ==
    /\ v.k = "fin"
    /\ v.m * 100 = n * Pow10(v.e)

\* The token under test is N followed by the cents sign, N all digits.
IsCentsToken ==
    /\ Len(tok) >= 2
    /\ tok[Len(tok)] = CENT
    /\ IsWhole(SubSeq(tok, 1, Len(tok) - 1))

\* C7: for a token N followed by the cents sign, N a non-negative integer,
\* both parsers return exactly N/100; and a token that starts with the dollar
\* sign and ends with the cents sign is handled by the cents rule (which
\* rejects it, its prefix not being a number), not by the dollar rule.
C7_CentsExact ==
    apc = "parsed" =>
        /\ IsCentsToken =>
              /\ rSingle.ok
              /\ IsHundredthOf(rSingle.v, DigitsValue(SubSeq(tok, 1, Len(tok) - 1)))
              /\ rBatch.ok
              /\ IsHundredthOf(rBatch.v, DigitsValue(SubSeq(tok, 1, Len(tok) - 1)))
        /\ (Len(tok) >= 2 /\ tok[1] = "$" /\ tok[Len(tok)] = CENT) =>
              /\ rSingle.err = "InvalidCents"
              /\ rBatch.err = "InvalidCents"

\* The send command line has a valid target and an amount argument.
SendWithAmount ==
    /\ cmd = "send"
    /\ Len(argv.positional) = 2
    /\ parsePaymentTarget(args.positional[1]).ok

\* The amount argument as typed, and what follows its first character.
AmountTyped == argv.positional[2]

AfterDollar == SubSeq(AmountTyped, 2, Len(AmountTyped))

AmountErrors ==
    {"TypeError", "InvalidCents", "InvalidDollar", "InvalidAmount", "ShellHazard"}

C9_PlainDecimalAccepted ==
    (SendWithAmount /\ IsPlainDecimal(AmountTyped)) =>
        /\ err \notin AmountErrors
        /\ \A i \in 1..Len(posts) :
              /\ posts[i].body.amount.t = "number"
              /\ IsValueOf(posts[i].body.amount.n, AmountTyped)

\* The token, trimmed, ends with a letter.
HasTrailingLetter ==
    /\ trim(tok) # <<>>
    /\ trim(tok)[Len(trim(tok))] \in Letters

\* C10: neither parser returns a value for a token with trailing non-numeric
\* characters, and neither returns NaN or an infinite value.
C10_NoJunkNoInfinity ==
    apc = "parsed" =>
        /\ rSingle.ok => rSingle.v.k = "fin" /\ ~HasTrailingLetter
        /\ rBatch.ok => rBatch.v.k = "fin" /\ ~HasTrailingLetter

----------------------------------------------------------------------------
(* Properties of request bodies *)

\* The JavaScript value v is a number below zero.
IsNegative(v) == v.t = "number" /\ v.n.k # "nan" /\ v.n.m < 0

\* C11: no request carries a negative amount, neither as the amount of a
\* single payment nor as the amount of an item of a batch.
C11_NoNegativeAmount ==
    \A i \in 1..Len(posts) :
        /\ ~IsNegative(posts[i].body.amount)
        /\ \A j \in 1..Len(posts[i].body.receivers) :
              ~IsNegative(posts[i].body.receivers[j].amount)

----------------------------------------------------------------------------
(* Properties of the platform classification *)

\* The identity the aliases of the classification table stand for, <<>> for
\* a token that is no alias.
IdentityOf(lower) ==
    CASE lower \in {X, X \o DOT_COM, TWITTER, TWITTER \o DOT_COM} -> X
      [] lower \in {FARCASTER, FARCASTER \o <<".", "x", "y", "z">>} -> FARCASTER
      [] lower \in {GITHUB, GITHUB \o DOT_COM} -> GITHUB
      [] lower = EMAIL -> EMAIL
      [] lower = WEB -> WEB
      [] OTHER -> <<>>

Classified == fname = "normalizePlatform" /\ fpc = "applied"

\* C12: the platform classification is total and case-insensitive: an alias
\* yields its identity, every other token fails with the unknown-platform
\* error, a result is one of the five identities, and classifying a result
\* again gives the same result.
C12_PlatformClassification ==
    Classified =>
        /\ IF IdentityOf(toLowerCase(farg)) # <<>>
           THEN fres[1] = Return(Str(IdentityOf(toLowerCase(farg))))
           ELSE fres[1] = Throw("UnknownPlatform")
        /\ fres[1].ok =>
              /\ fres[1].v.t = "string"
              /\ fres[1].v.s \in allowedIdentities
              /\ fres[2] = fres[1]

----------------------------------------------------------------------------
(* Properties of receiver validation *)

XNameChars ==
    { "a", "b", "e", "g", "l", "m", "n", "o", "r", "s", "t", "u",
      "A", "Z", "_", "0", "1", "2", "3", "4", "7", "9" }

\* r is 1 to 15 characters of [A-Za-z0-9_] (over the characters considered).
IsXName(r) == Len(r) >= 1 /\ Len(r) <= 15 /\ \A i \in 1..Len(r) : r[i] \in XNameChars

\* r holds none of the separators of a target or of a batch.
NoSeparator(r) == \A i \in 1..Len(r) : r[i] \notin {"/", ":", ","}

ReceiverValidated == fname = "validateReceiver" /\ fpc = "applied"

\* Empty or 16 and more characters, and no separator.
EmptyOrLong(r) == (r = <<>> \/ Len(r) >= 16) /\ NoSeparator(r)

\* A receiver for platform x is accepted exactly when it is 1 to 15
\* characters of [A-Za-z0-9_]: by the validator, as the target of a single
\* send and as an item of either form of batch; the empty receiver and one of
\* 16 characters and more fail as invalid receivers in a single send and in a
\* comma-separated batch.
XReceiverRule ==
    /\ fres[1] = IsXName(farg)
    /\ \A k \in 2..4 : fres[k].ok = IsXName(farg)
    /\ EmptyOrLong(farg) => \A k \in 2..3 : fres[k].err = "InvalidReceiver"

\* C13 as stated: for platform x a receiver is accepted iff it is 1 to 15
\* characters of [A-Za-z0-9_], and the empty receiver and every receiver of
\* 16 characters and more are rejected with the invalid-receiver error, in a
\* single send and for every item of a batch.
C13_InvalidReceiverEverywhere ==
    ReceiverValidated =>
        /\ XReceiverRule
        /\ EmptyOrLong(farg) => fres[4].err = "InvalidReceiver"

\* C13, amended: the same, except that an item of a JSON batch whose receiver
\* is empty is rejected as an item without receiver (a missing required
\* field), before receiver validation is reached.
C13_XReceiver ==
    ReceiverValidated =>
        /\ XReceiverRule
        /\ EmptyOrLong(farg) =>
              fres[4].err = IF farg = <<>> THEN "MissingReceiver" ELSE "InvalidReceiver"

\* The empty receiver was rejected: as an invalid receiver by the single send
\* and the comma-separated batch, as a missing field by the JSON batch.
C13_Witness ==
    /\ ReceiverValidated
    /\ farg = <<>>
    /\ ~fres[1]
    /\ fres[2].err = "InvalidReceiver"
    /\ fres[3].err = "InvalidReceiver"
    /\ fres[4].err = "MissingReceiver"

----------------------------------------------------------------------------
(* Properties of the batch descriptor *)

HasPrefix(s, p) == Len(s) >= Len(p) /\ SubSeq(s, 1, Len(p)) = p

HasSuffix(s, p) == Len(s) >= Len(p) /\ SubSeq(s, Len(s) - Len(p) + 1, Len(s)) = p

\* The rules of the precedence, each on its own.
LooksRemote(s) ==
    HasPrefix(s, <<"h", "t", "t", "p", ":", "/", "/">>)
    \/ HasPrefix(s, <<"h", "t", "t", "p", "s", ":", "/", "/">>)

LooksLocal(s) ==
    HasPrefix(s, <<"f", "i", "l", "e", ":">>) \/ HasSuffix(s, <<".", "j", "s", "o", "n">>)

LooksInline(s) == HasPrefix(s, <<"{">>)

InputClassified == fname = "parseInput" /\ fpc = "applied"

\* C14: the batch input is interpreted in exactly one way, by the earliest rule
\* that matches: a remote fetch when it starts with http:// or https://, else a
\* local file when it starts with file: or ends with .json (the file: prefix
\* is not part of the path read), else inline JSON when it starts with {,
\* else the comma-separated form.
C14_Precedence ==
    InputClassified =>
        /\ fres[1] \in {"url", "file", "json", "csv"}
        /\ fres[1] = "url" <=> LooksRemote(farg)
        /\ fres[1] = "file" <=> (~LooksRemote(farg) /\ LooksLocal(farg))
        /\ fres[1] = "json" <=>
              (~LooksRemote(farg) /\ ~LooksLocal(farg) /\ LooksInline(farg))
        /\ fres[1] = "csv" <=>
              (~LooksRemote(farg) /\ ~LooksLocal(farg) /\ ~LooksInline(farg))
        /\ fres[1] = "file" =>
              \/ ~HasPrefix(farg, <<"f", "i", "l", "e", ":">>) /\ fres[2] = farg
              \/ <<"f", "i", "l", "e", ":">> \o fres[2] = farg
        /\ fres[1] # "file" => fres[2] = farg

\* An input that matches the rule of the local file and that of inline JSON
\* was read as a local file.
C14_Witness ==
    /\ InputClassified
    /\ LooksLocal(farg)
    /\ LooksInline(farg)
    /\ fres[1] = "file"

\* The receivers of the list hold neither ':' nor ','.
PlainReceivers(pairs) ==
    \A i \in 1..Len(pairs) : \A j \in 1..Len(pairs[i][1]) :
        pairs[i][1][j] \notin {":", ","}

BothFormsParsed == fname = "batchForms" /\ fpc = "applied"

\* Both forms fail, or both yield the same platform and the same list.
SameOutcome ==
    \/ ~fres[1].ok /\ ~fres[2].ok
    \/ /\ fres[1].ok
       /\ fres[2].ok
       /\ fres[1].platform = fres[2].platform
       /\ fres[1].payments = fres[2].payments

\* The batch x/alice:5(cent sign),bob:$0.5
IsExampleBatch ==
    /\ farg[1] = <<"x">>
    /\ farg[2] = << << <<"a", "l", "i", "c", "e">>, <<"5", CENT>> >>,
                    << <<"b", "o", "b">>, <<"$", "0", ".", "5">> >> >>

ExamplePayments ==
    << [receiver |-> Str(<<"a", "l", "i", "c", "e">>), amount |-> Num(Fin(5, 2))],
       [receiver |-> Str(<<"b", "o", "b">>), amount |-> Num(Fin(5, 1))] >>

\* C15: the comma-separated and the JSON form of a batch whose receivers hold
\* no ':' and no ',' both fail, or both yield the same platform and the same
\* ordered list of payments; alice:5 cents, bob:$0.5 on x yields platform x and
\* the payments alice 0.05, bob 0.5 in both.
C15_FormsEquivalent ==
    (BothFormsParsed /\ PlainReceivers(farg[2])) =>
        /\ SameOutcome
        /\ IsExampleBatch =>
              /\ fres[1].ok
              /\ fres[1].platform = Str(X)
              /\ fres[1].payments = ExamplePayments

\* The platform value names none of the five platforms.
UnknownPlatformValue(platform) ==
    platform.t # "string" \/ IdentityOf(toLowerCase(platform.s)) = <<>>

\* An item with a missing field, an invalid receiver or an invalid amount.
BadItem(identity, item) ==
    \/ ~Truthy(item.receiver)
    \/ item.amount.t = "undefined"
    \/ ~validateReceiver(Str(identity), item.receiver.s)
    \/ ~parseAmountBatch(item.amount).ok

\* A document whose platform is unknown or one of whose items is bad.
BadDoc(d) ==
    \/ UnknownPlatformValue(d.platform)
    \/ ~d.isArray
    \/ \E i \in 1..Len(d.payments) :
          BadItem(IdentityOf(toLowerCase(d.platform.s)), d.payments[i])

\* The item a receiver:amount pair stands for.
ItemOfPair(pair, colon) ==
    [receiver |-> Str(SubSeq(pair, 1, colon - 1)),
     amount |-> IF colon = 0 THEN Undefined
                ELSE Str(SubSeq(pair, colon + 1, Len(pair)))]

\* A comma-separated list one of whose pairs is bad.
BadPairList(identity, pairs) ==
    \E i \in 1..Len(pairs) :
        BadItem(identity, ItemOfPair(pairs[i], LastIndexFrom(pairs[i], Len(pairs[i]), ":")))

\* A comma-separated input whose platform is unknown or one of whose pairs
\* is bad.
BadCommaInput(input, slash) ==
    \/ slash > Len(input)
    \/ UnknownPlatformValue(Str(SubSeq(input, 1, slash - 1)))
    \/ BadPairList(IdentityOf(toLowerCase(SubSeq(input, 1, slash - 1))),
                   split(SubSeq(input, slash + 1, Len(input)), ","))

\* batch-send was given a batch whose platform is unknown or one of whose
\* items is bad.
BadBatchGiven ==
    /\ cmd = "batch-send"
    /\ Len(args.positional) > 0
    /\ args.positional[1].t = "string"
    /\ IF InputKind(args.positional[1].s) = "csv"
       THEN BadCommaInput(args.positional[1].s, IndexFrom(args.positional[1].s, 1, "/"))
       ELSE doc.avail /\ BadDoc(doc)

\* C16: batch parsing is all-or-nothing: when the platform is unknown or any
\* item of the batch is bad, at any position, no descriptor is produced, no
\* request is issued for any item, and the process exits non-zero.
C16_AllOrNothing ==
    BadBatchGiven =>
        /\ receivers = <<>>
        /\ receiverIdentity = Undefined
        /\ posts = <<>>
        /\ pc \in {"start", "exited"}
        /\ pc = "exited" => exitCode # 0

----------------------------------------------------------------------------
(* Properties of campaign validation *)

\* v is a string whose length is in lo..hi.
IsText(v, lo, hi) == v.t = "string" /\ Len(v.s) >= lo /\ Len(v.s) <= hi

\* v is an integer in lo..hi.
IsIntegerIn(v, lo, hi) ==
    v.t = "number" /\ v.n.k = "fin" /\ v.n.e = 0 /\ v.n.m >= lo /\ v.n.m <= hi

\* The well-formed absolute URLs among the strings considered.
WellFormedURLs ==
    { <<"h", "t", "t", "p", "s", ":", "/", "/", "s", ".", "c", "o">>,
      <<"h", "t", "t", "p", ":", "/", "/", "s", ".", "c", "o", "/", "p">>,
      <<"m", "a", "i", "l", "t", "o", ":", "a", "@", "b", ".", "c", "o">> }

\* The rule of each field of a campaign.
FieldRule(f, d) ==
    CASE f = "platform" -> d.platform.t = "string" /\ d.platform.s \in {<<"x">>, FARCASTER}
      [] f = "name" -> IsText(d.name, 3, 100)
      [] f = "description" -> IsText(d.description, 10, 500)
      [] f = "totalCookies" -> IsIntegerIn(d.totalCookies, 3, 10)
      [] f = "sponsorName" -> IsText(d.sponsorName, 1, 100)
      [] f = "sponsorHandle" -> IsText(d.sponsorHandle, 1, 50)
      [] f = "sponsorUrl" ->
            \/ d.sponsorUrl.t \in {"undefined", "null"}
            \/ d.sponsorUrl.t = "string" /\ d.sponsorUrl.s \in WellFormedURLs

\* The fields of d that violate their rule.
ViolatedFields(d) == { f \in CampaignFields : ~FieldRule(f, d) }

CampaignValidated == fname = "validateCampaignData" /\ fpc = "applied"

\* C17: a campaign object is accepted exactly when every field meets its
\* rule, the bounds being inclusive, and an accepted object is returned with
\* no field changed.
C17_CampaignAccepted ==
    CampaignValidated =>
        /\ fres[2].ok <=> ViolatedFields(farg) = {}
        /\ fres[2].ok => fres[2].v = farg

\* An object at the lower bounds (3 cookies, a name of 3 characters) was
\* accepted and returned.
C17_Witness ==
    /\ CampaignValidated
    /\ farg.totalCookies = Num(Fin(3, 0))
    /\ Len(farg.name.s) = 3
    /\ fres[2] = Return(farg)

\* The name under which validation reports a field.
ReportedAs(f) ==
    CASE f = "sponsorName" -> "sponsor.name"
      [] f = "sponsorHandle" -> "sponsor.handle"
      [] f = "sponsorUrl" -> "sponsor.url"
      [] OTHER -> f

\* The violations reported are those of the fields in F, one each.
ReportsExactly(violations, F) ==
    /\ Len(violations) = Cardinality(F)
    /\ \A f \in F : \E i \in 1..Len(violations) : violations[i] = ReportedAs(f)

\* C18 as stated: validation reports one violation for each field that
\* violates its rule, so that an object violating k fields yields one error
\* that lists k violations.
C18_OneViolationPerField ==
    CampaignValidated =>
        /\ ReportsExactly(fres[1], ViolatedFields(farg))
        /\ ~fres[2].ok <=> fres[1] # <<>>

\* The fields outside the sponsor.
TopFields == {"platform", "name", "description", "totalCookies"}

\* C18, amended: validation reports one violation for each field that
\* violates its rule when the object has a sponsor; when it has none, it
\* reports one violation for each violated field outside the sponsor and a
\* single one for the missing sponsor, in place of those of the sponsor's
\* fields.  Any violation makes the one aggregate failure.
C18_ViolationsCollected ==
    CampaignValidated =>
        /\ IF Truthy(farg.sponsor)
           THEN ReportsExactly(fres[1], ViolatedFields(farg))
           ELSE /\ Len(fres[1]) = Cardinality(ViolatedFields(farg) \cap TopFields) + 1
                /\ \E i \in 1..Len(fres[1]) : fres[1][i] = "sponsor"
                /\ \A f \in ViolatedFields(farg) \cap TopFields :
                      \E i \in 1..Len(fres[1]) : fres[1][i] = f
        /\ ~fres[2].ok <=> fres[1] # <<>>

\* A name too short together with too few cookies was reported as two
\* violations.
C18_Witness ==
    /\ CampaignValidated
    /\ ViolatedFields(farg) = {"name", "totalCookies"}
    /\ farg.totalCookies = Num(Fin(2, 0))
    /\ fres[1] = <<"name", "totalCookies">>
    /\ ~fres[2].ok

----------------------------------------------------------------------------
(* Properties of the extraction of instructions from a prompt *)

\* The ways in which the call of the language model ends the invocation.
ExtractionErrors == {"LLMFailed", "LLMMalformed"}

\* C19: the extractor falls back to the templates when there is no model
\* credential, when the call of the model fails and when the answer holds no
\* JSON array that parses; in none of these cases does extraction end the
\* invocation with an error, and without credential no model is called.
C19_FallbackNeverAborts ==
    cmd = "ai-agent" =>
        /\ err \notin ExtractionErrors
        /\ (~Truthy(env.OPENAI_API_KEY) /\ ~Truthy(env.ANTHROPIC_API_KEY)) =>
              \A i \in 1..Len(netlog) : netlog[i] # "llm"

\* The instruction a phrase asks for.
Asked(ph) ==
    [receiver |-> [t |-> "string", s |-> ph.user, n |-> NaN],
     amount |-> [t |-> "number", s |-> <<>>, n |-> ph.n[2]],
     platform |-> [t |-> "string", s |-> toLowerCase(ph.platform), n |-> NaN]]

PromptParsed == fname = "fallbackParser" /\ fpc = "applied"

\* C20: without a language model, a prompt of one payment phrase in one of the
\* three phrasings (in any letter case, with or without @) yields exactly one
\* instruction: the user, the amount N and the platform in lower case; and
\* every phrase of a prompt is collected once, by one template only.
C20_OnePhraseOneInstruction ==
    PromptParsed =>
        /\ Len(fres) = Len(farg)
        /\ \A i \in 1..Len(farg) : \E j \in 1..Len(fres) : fres[j] = Asked(farg[i])
        /\ \A j \in 1..Len(fres) : \E i \in 1..Len(farg) : fres[j] = Asked(farg[i])
        /\ Len(farg) = 1 => fres = <<Asked(farg[1])>>

\* A prompt of one phrase of the second phrasing, its platform typed in upper
\* case, gave one instruction, for the platform in lower case.
C20_Witness ==
    /\ PromptParsed
    /\ Len(farg) = 1
    /\ farg[1].template = 2
    /\ farg[1].platform = <<"G", "I", "T", "H", "U", "B">>
    /\ Len(fres) = 1
    /\ fres[1].platform.s = GITHUB

----------------------------------------------------------------------------
(* Properties of the requests of ai-agent *)

\* The requests so far all succeeded.
AllSucceeded(requests) == \A i \in 1..Len(requests) : requests[i].response = "ok"

\* One request was added to the log, and the log is otherwise as it was.
OneRequestIssued ==
    /\ Len(posts') = Len(posts) + 1
    /\ SubSeq(posts', 1, Len(posts)) = posts

\* C21: ai-agent issues the requests of the platforms one at a time: a
\* request is issued only when every request before it has succeeded; a
\* request that fails ends the process with a non-zero status at once, so that
\* no later platform gets a request; no platform gets a second request, and
\* the requests made stay as they were.
C21_Sequential ==
    [][cmd = "ai-agent" =>
          /\ posts' = posts \/ (OneRequestIssued /\ AllSucceeded(posts) /\ pc # "exited")
          /\ (posts' # posts /\ posts'[Len(posts')].response # "ok") =>
                (pc' = "exited" /\ exitCode' # 0)
          /\ \A i \in 1..Len(posts') : \A j \in 1..Len(posts') :
                posts'[i].platform = posts'[j].platform => i = j]_vars

\* The request of the first of two platforms failed: the process ended with
\* status 1 and the second platform is still unpaid.
C21_Witness ==
    /\ cmd = "ai-agent"
    /\ Len(posts) = 1
    /\ posts[1].response = "failed"
    /\ Len(groups) = 2
    /\ pc = "exited"
    /\ exitCode = 1

\* ai-agent has no credential of a language model.
NoModelCredential == ~Truthy(env.OPENAI_API_KEY) /\ ~Truthy(env.ANTHROPIC_API_KEY)

\* C22: when extraction yields no instruction, from the language model or
\* from the templates, ai-agent issues no request, reports that nothing was
\* understood and exits with a non-zero status; it never goes on to pay with
\* no instruction.
C22_NothingUnderstood ==
    cmd = "ai-agent" =>
        /\ pc \in {"signer", "post"} => groups # <<>>
        /\ err = "NoInstructions" =>
              (pc = "exited" /\ exitCode # 0 /\ exitCode # -1 /\ posts = <<>> /\ signers = <<>>)
        /\ (NoModelCredential /\ fallbackParser(args.prompt) = <<>>
            /\ pc = "exited" /\ err \notin SelectionErrors \cup {"Usage"}) =>
              err = "NoInstructions"

\* The language model answered with an empty list: nothing was paid and the
\* process ended with status 1.
C22_Witness ==
    /\ cmd = "ai-agent"
    /\ ~NoModelCredential
    /\ netlog = <<"llm">>
    /\ err = "NoInstructions"
    /\ exitCode = 1
    /\ posts = <<>>

----------------------------------------------------------------------------
(* Properties of the Solana cluster *)

ClusterChosen == fname = "signerNetwork" /\ fpc = "applied"

\* C23: for Solana the devnet cluster is chosen exactly when the host of the
\* base URL is localhost or a loopback address, and mainnet otherwise; for
\* Base no cluster is chosen; and the signer, the displayed name and the
\* explorer link agree.
C23_DevnetIffLocalHost ==
    ClusterChosen =>
        /\ ~farg[1] => (fres[1] = "base" /\ fres[2] = "Base" /\ fres[3] = "Base")
        /\ farg[1] =>
              /\ fres[1] = IF farg[2] \in LocalServerURLs THEN "solana-devnet" ELSE "solana"
              /\ fres[2] = IF fres[1] = "solana" THEN "Solana Mainnet" ELSE "Solana Devnet"
              /\ fres[3] = fres[2]
              /\ fres[4] = IF fres[1] = "solana" THEN "" ELSE "?cluster=devnet"

----------------------------------------------------------------------------
(* Properties of the network traffic of one invocation *)

\* How many entries of the log are of the given kind.
CountOf(log, kind) == Cardinality({i \in 1..Len(log) : log[i] = kind})

\* C24: single send, batch send and campaign creation read their input from
\* the network at most once and issue at most one request to the payment API;
\* a request that fails is not issued again: the process has ended with a
\* non-zero status.
C24_OneReadOnePost ==
    cmd \in {"send", "batch-send", "campaign"} =>
        /\ CountOf(netlog, "fetch") <= 1
        /\ CountOf(netlog, "post") <= 1
        /\ Len(posts) <= 1
        /\ Len(posts) = CountOf(netlog, "post")
        /\ (Len(posts) = 1 /\ posts[1].response # "ok") =>
              (pc = "exited" /\ exitCode # 0 /\ exitCode # -1)
        /\ Len(posts) = 1 => pc = "exited"

\* A batch read from a URL was sent, the request failed, and the process
\* ended with status 1 after that one request.
C24_Witness ==
    /\ cmd = "batch-send"
    /\ netlog = <<"fetch", "post">>
    /\ Len(posts) = 1
    /\ posts[1].response = "failed"
    /\ exitCode = 1

----------------------------------------------------------------------------
(* Properties of the platform of a request *)

\* The five canonical identities, as the strings a request path may carry.
CanonicalPlatforms == { Str(p) : p \in {X, FARCASTER, GITHUB, EMAIL, WEB} }

\* C25: in every entry point, the platform in the path of every request to
\* /payments/{platform}/pay or /payments/{platform}/batch-pay is one of the
\* five canonical lowercase identities.
C25_CanonicalPlatform ==
    \A i \in 1..Len(posts) :
        posts[i].endpoint \in {"pay", "batch-pay"} =>
            posts[i].platform \in CanonicalPlatforms

----------------------------------------------------------------------------
(* Properties of the two variants of parseAmount *)

\* The trimmed token is a dollar sign followed by digits only.
WholeDollar(s) ==
    /\ Len(s) >= 2
    /\ s[1] = "$"
    /\ \A i \in 2..Len(s) : s[i] \in Digits

----------------------------------------------------------------------------
(* Properties of the grouping of instructions in ai-agent *)

\* The instructions of a platform, in the order of their extraction.
OfPlatform(p) == SelectSeq(extracted, LAMBDA x : x.platform = p)

\* The position of the first extracted instruction of a platform.
FirstAt(p) ==
    CHOOSE i \in 1..Len(extracted) :
        /\ extracted[i].platform = p
        /\ \A j \in 1..(i - 1) : extracted[j].platform # p

\* The request pays the given instructions: one instruction by /pay with its
\* receiver, its amount and its description if it has one; several by
\* /batch-pay with their {receiver, amount} pairs in order.
Pays(request, members) ==
    IF Len(members) = 1
    THEN /\ request.endpoint = "pay"
         /\ request.body.receiver = members[1].receiver
         /\ request.body.amount = members[1].amount
         /\ request.body.receivers = <<>>
         /\ ("description" \in DOMAIN members[1] /\ members[1].description.s # <<>>) =>
               request.body.description = members[1].description
    ELSE /\ request.endpoint = "batch-pay"
         /\ request.body.receivers =
               [i \in 1..Len(members) |->
                   [receiver |-> members[i].receiver, amount |-> members[i].amount]]

\* How many receivers a request pays.
ReceiversOf(request) ==
    IF request.endpoint = "pay" THEN 1 ELSE Len(request.body.receivers)

RECURSIVE TotalReceivers(_)
TotalReceivers(requests) ==
    IF requests = <<>> THEN 0
    ELSE ReceiversOf(Head(requests)) + TotalReceivers(Tail(requests))

\* C27: when every request of an ai-agent run succeeded, there is one request
\* for each platform of the extracted instructions, in the order in which the
\* platforms first appear; the request of a platform pays exactly the
\* instructions of that platform, and the receivers of all requests are as
\* many as the instructions.
C27_EveryInstructionPaidOnce ==
    (cmd = "ai-agent" /\ pc = "exited" /\ exitCode = 0) =>
        /\ extracted # <<>>
        /\ \A i \in 1..Len(extracted) :
              \E k \in 1..Len(posts) : posts[k].platform = extracted[i].platform
        /\ \A k \in 1..Len(posts) :
              /\ \E i \in 1..Len(extracted) : extracted[i].platform = posts[k].platform
              /\ posts[k].response = "ok"
              /\ Pays(posts[k], OfPlatform(posts[k].platform))
              /\ \A l \in (k + 1)..Len(posts) :
                    FirstAt(posts[k].platform) < FirstAt(posts[l].platform)
        /\ TotalReceivers(posts) = Len(extracted)

\* Three instructions, for x, farcaster and x again, were paid by a batch
\* request for x and then a single request for farcaster.
C27_Witness ==
    /\ cmd = "ai-agent"
    /\ pc = "exited"
    /\ exitCode = 0
    /\ Len(extracted) = 3
    /\ Len(posts) = 2
    /\ posts[1].endpoint = "batch-pay"
    /\ posts[1].platform = Str(X)
    /\ Len(posts[1].body.receivers) = 2
    /\ posts[2].endpoint = "pay"
    /\ posts[2].platform = Str(FARCASTER)
    /\ posts[2].body.description = Str(<<"t", "y">>)

----------------------------------------------------------------------------
(* Properties of the order of the steps of campaign creation *)

\* The answer is y or yes, in any case of letters.
Affirmative(answer) ==
    \/ Len(answer) = 1 /\ answer[1] \in {"y", "Y"}
    \/ /\ Len(answer) = 3
       /\ answer[1] \in {"y", "Y"}
       /\ answer[2] \in {"e", "E"}
       /\ answer[3] \in {"s", "S"}

\* C28: in campaign creation the network is resolved only for validated
\* data, whose cost is totalCookies times the unit price and lies between 3
\* and 10; the user is asked once, and only after the network is resolved, so
\* a network-selection failure ends the run before any question; a signer is
\* created and the request issued only after an affirmative answer; after any
\* other answer the process has ended with status 0, no signer created and no
\* request issued.
C28_CampaignOrder ==
    cmd = "campaign" =>
        /\ useSolana # <<>> =>
              /\ doc.avail
              /\ amount = Num(Fin(doc.totalCookies.n.m * cookieValue, 0))
              /\ amount.n.m >= 3
              /\ amount.n.m <= 10
        /\ pc \in {"confirm", "signer", "post"} => useSolana # <<>>
        /\ Len(typed) <= 1
        /\ typed # <<>> => useSolana # <<>>
        /\ (pc = "exited" /\ err \in SelectionErrors) => typed = <<>>
        /\ pc \in {"signer", "post"} => typed # <<>>
        /\ signers # <<>> => (typed # <<>> /\ Affirmative(typed[1]))
        /\ posts # <<>> => (signers # <<>> /\ posts[1].endpoint = "create")
        /\ (typed # <<>> /\ ~Affirmative(typed[1])) =>
              /\ pc = "exited"
              /\ exitCode = 0
              /\ signers = <<>>
              /\ posts = <<>>

\* The user typed n: the process ended with status 0 and nothing was paid.
C28_Witness ==
    /\ cmd = "campaign"
    /\ typed = << <<"n">> >>
    /\ useSolana # <<>>
    /\ signers = <<>>
    /\ pc = "exited"
    /\ exitCode = 0
    /\ posts = <<>>

----------------------------------------------------------------------------
(* Properties of the dispatcher *)

KnownCommands == {"pay", "batch-pay", "ai-agent", "sponsor-a-cookie"}

\* The child ran to its end and exited with code 0.
ChildSucceeded == event.kind = "exit" /\ event.code = 0

\* C29: once the dispatcher has exited, it has spawned exactly one child for
\* a known subcommand, with the remaining arguments in order, and none
\* otherwise; --help and --version exit 0 and an unknown command exits 1; and
\* when a child was spawned the exit status is 0 only if the child exited
\* with code 0, and non-zero when it exited non-zero, could not be started or
\* was ended by a signal.
C29_ExitReflectsChild ==
    dpc = "exited" =>
        /\ dcode >= 0
        /\ IF dargs # <<>> /\ dargs[1] \in KnownCommands
           THEN /\ Len(children) = 1
                /\ children[1].args = SubSeq(dargs, 2, Len(dargs))
                /\ dcode = 0 <=> ChildSucceeded
           ELSE /\ children = <<>>
                /\ event.kind = "none"
                /\ IF dargs = <<>> \/ dargs[1] \in {"--help", "-h", "--version", "-v"}
                   THEN dcode = 0
                   ELSE dcode = 1

----------------------------------------------------------------------------
(* Properties of the receivers of a batch request *)

\* C30: no batch-payment request is issued with an empty list of receivers,
\* whatever the shape of the batch input.
C30_NoEmptyBatch ==
    \A i \in 1..Len(posts) :
        posts[i].endpoint = "batch-pay" => posts[i].body.receivers # <<>>

====
